---- MODULE Spec2Model ----
(***************************************************************************)
(* A model of the root config of mfe-sols/root-config                      *)
(* (src/src/org-root-config.ts): the toggle / availability reconciler run  *)
(* by bootstrap(), the guarded page reload, the two pollers, the script    *)
(* loader, the module format detector and loadApp.                         *)
(*                                                                         *)
(* Conventions.  A JavaScript Set<string> and a JSON array are both        *)
(* modelled as a set of entries (element order and duplicates of arrays    *)
(* are not modelled).  An entry that is not a string is the tag NonString. *)
(* An optional value (undefined / null, or a value) is the empty set or a  *)
(* singleton.  A promise chain is modelled by the outcome it settles to.   *)
(* ALWAYS_ON_APPS and the shell UI's ALWAYS_VISIBLE_APPS are the empty set *)
(* in the source; the model chooses them in the initial state so that the  *)
(* exemption code is exercised.                                            *)
(***************************************************************************)
EXTENDS Integers, Sequences, FiniteSets, TLC

None == {}
Some(x) == {x}
The(o) == CHOOSE x \in o : TRUE

(***************************************************************************)
(* Bounds of the model.                                                    *)
(***************************************************************************)
MaxTick == 1
MaxCalls == 2
MaxScriptCalls == 3
MaxDetects == 2
MaxSignals == 2
HeadLen == 3
TailLen == 1

(***************************************************************************)
(* Program constants.                                                      *)
(***************************************************************************)
AVAILABILITY_CACHE_TTL == 30000
intervalMs == 5000
hiddenIntervalMs == 15000
authIntervalMs == 2000
authHiddenIntervalMs == 8000
T0 == 100000

Catalog == "@org/catalog"
ProfileVue == "@org/profile-vue"
SimpleVanilla == "@org/simple-vanilla"
Unlisted == "@org/unlisted"
NonString == "<non-string>"

\* the names that occur in toggle lists
Names == {Catalog, ProfileVue}
\* the applications of the layout (allApplications); Unlisted stands for an
\* application of the layout that is in neither registry
allApplications == {Catalog, ProfileVue, SimpleVanilla, Unlisted}
\* the registries: umdApps, systemFirstApps and the keys of localAppUrls
umdApps == {ProfileVue, SimpleVanilla}
systemFirstApps == {Catalog, SimpleVanilla}
localAppUrls == {Catalog, ProfileVue, SimpleVanilla}

DisabledModes == {"hide", "placeholder"}

(***************************************************************************)
(* JSON values read from the toggle service and from storage.              *)
(***************************************************************************)
RawList(items) == [t |-> "arr", items |-> items]
RawAbsent == [t |-> "absent"]
RawNotArray == [t |-> "notarray"]

EmptyApps == [n \in {} |-> "hide"]
RawModeObj(d, a) == [t |-> "obj", default |-> d, apps |-> a]
RawModeStr(s) == [t |-> "str", s |-> s]
RawModeArr == [t |-> "arr"]
RawAppsObj(m) == [t |-> "obj", m |-> m]

Mode(d, a) == [default |-> d, apps |-> a]

\* normalizeDisabledModeConfig: a valid string, or an object whose valid
\* per-application entries are kept and whose default falls back to "hide".
normalizeDisabledModeConfig(value) ==
  IF value.t = "str"
    THEN IF value.s \in DisabledModes THEN Some(Mode(value.s, EmptyApps)) ELSE None
  ELSE IF value.t # "obj" THEN None
  ELSE LET apps == IF value.apps.t = "obj"
                     THEN [n \in {k \in DOMAIN value.apps.m : value.apps.m[k] \in DisabledModes}
                             |-> value.apps.m[n]]
                     ELSE EmptyApps
           defaultMode == IF value.default \in DisabledModes THEN value.default ELSE "hide"
       IN Some(Mode(defaultMode, apps))

\* JSON.stringify of a normalized disabledMode followed by JSON.parse: an
\* undefined property is dropped, a value is written as an object.
StoredMode(mode) ==
  IF mode = None THEN RawAbsent
  ELSE RawModeObj(The(mode).default, RawAppsObj(The(mode).apps))


(***************************************************************************)
(* State.                                                                  *)
(***************************************************************************)
VARIABLES
  isLocalhost,          \* hostname is localhost / 127.0.0.1 / *.devtunnels.ms
  location,             \* window.location: scheme, host and port of the page
  storageThrows,        \* every localStorage / sessionStorage access throws
  silent,               \* the endpoints that never answer a request
  ALWAYS_ON_APPS,       \* the always-on exemption set
  ALWAYS_VISIBLE_APPS,  \* the shell UI's always-visible exemption set
  now,                  \* Date.now()
  hidden,               \* document.hidden
  lsDisabled,           \* localStorage "mfe-disabled" (raw)
  lsDisabledMode,       \* localStorage "mfe-disabled-mode" (raw)
  ssCache,              \* sessionStorage "mfe-availability-cache" (raw)
  phase,                \* position of bootstrap()
  reloadScheduled,      \* the reload guard
  reloads,              \* number of window.location.reload() calls
  reloadSignals,        \* history: number of safeReload() calls, up to MaxSignals
  runtimeDisabledApps,  \* the set consulted by loadApp
  mfeServerDisabled,    \* window.__mfeServerDisabled (optional)
  mfeDisabledMode,      \* window.__mfeDisabledMode (optional)
  toggleEvent,          \* detail of the last "mfe-toggle" event (optional)
  availabilityEvent,    \* detail of the last "mfe-availability" event (optional)
  errorEvent,           \* name of the last "mfe-error" event (optional)
  localDisabledApps,    \* bootstrap's localDisabledApps (line 961)
  cached,               \* bootstrap's cached (optional)
  currentAvailableApps, \* bootstrap's currentAvailableApps (optional)
  aliased,              \* currentAvailableApps is the object cached.available
  failedApps,           \* bootstrap's failedApps
  registered,           \* applications given to registerApplication
  starts,               \* number of start() calls
  togglePoll,           \* watchServerToggle: started, last, timer, inFlight
  authPoll,             \* watchAuthBuild: started, lastBuildId, timer, inFlight
  cacheWritten,         \* history: this page wrote the availability cache
  lastPass,             \* history: inputs of the last reconciliation pass
  bootLocal,            \* history: the device-local names read at line 961
  snapshot,             \* history: what readAvailabilityCache() returned (optional)
  uiDisabled,           \* shell UI: lastDisabled, the list it rendered last
  deviceMode,           \* history: "mfe-disabled-mode" as the device stored it
  apiServer,            \* toggle endpoint: the state the primary API server holds
  kvDisabled,           \* toggle endpoint: key mfe-toggle:disabled (optional)
  kvMode,               \* toggle endpoint: key mfe-toggle:disabled-mode (optional)
  posted,               \* history: the answer to the last POST (optional)
  got,                  \* history: the answer to the last GET since then (optional)
  lost,                 \* history: the channel messages heard once settled, and
                        \* "mfe-disabled-mode" had the first of them been lost
  tabs,                 \* the tabs open on the origin, when several are followed:
                        \* each with its own document and sessionStorage
  umdLoads,             \* the Map umdLoads: entries [key, p]
  scriptPromises,       \* the tracked promises of loadUmdScript, by creation
  scalls,               \* history: the loadUmdScript calls made
  moduleFormatCache,    \* the Map moduleFormatCache: entries [url, format]
  sources,              \* the text served at each probed URL
  dtasks,               \* the detectModuleFormat calls made
  calls                 \* the loadApp calls made

\* the state behind the toggle endpoint, which no step of the page changes
serverVars == <<apiServer, kvDisabled, kvMode, posted, got>>
\* what neither a step of the page nor one of the endpoint changes
fixedVars == <<isLocalhost, location, storageThrows, silent, ALWAYS_ON_APPS, ALWAYS_VISIBLE_APPS,
               tabs>>
cfgVars == <<fixedVars, serverVars, lost>>
shellVars == <<uiDisabled, deviceMode>>
envVars == <<now, hidden, lsDisabled, ssCache>>
reloadVars == <<reloadScheduled, reloads, reloadSignals>>
toggleVars == <<runtimeDisabledApps, mfeServerDisabled, mfeDisabledMode, toggleEvent, lsDisabledMode>>
availVars == <<availabilityEvent, currentAvailableApps, aliased, cached>>
errVars == <<errorEvent, failedApps>>
startVars == <<phase, localDisabledApps, registered, starts, cacheWritten, lastPass, bootLocal, snapshot>>
pollVars == <<togglePoll, authPoll>>
scriptVars == <<umdLoads, scriptPromises, scalls>>
detectVars == <<moduleFormatCache, dtasks>>
loaderVars == <<scriptVars, detectVars, sources, calls>>
vars == <<cfgVars, envVars, reloadVars, toggleVars, availVars, errVars, startVars, pollVars,
          loaderVars, shellVars>>
\* everything but the state behind the toggle endpoint
pageVars == <<fixedVars, lost, envVars, reloadVars,
              toggleVars, availVars, errVars, startVars, pollVars, loaderVars, shellVars>>

(***************************************************************************)
(* Reading the three sources.                                              *)
(***************************************************************************)
\* a filter that keeps every entry
keepEveryEntry(items) == items

StringsOf(items) == {e \in items : e # NonString}

\* a sanitizer that filters nothing
keepAlwaysOn(names) == names

sanitizeDisabledApps(names) == {name \in names : name \notin ALWAYS_ON_APPS}

\* a reader that drops the device-local list
ignoreLocalList(raw) == {}

getDisabledApps(raw) ==
  IF raw.t = "arr" THEN sanitizeDisabledApps(StringsOf(raw.items)) ELSE {}

ToggleState(disabled, disabledMode) == [disabled |-> disabled, disabledMode |-> disabledMode]

\* resp: the outcome of fetch(toggleUrl): a network error, a non-2xx status,
\* a body that is not JSON, or a JSON body.
getServerToggleState(resp) ==
  IF resp.t # "json" THEN ToggleState({}, None)
  ELSE IF resp.body.t # "obj" THEN ToggleState({}, None)
  ELSE ToggleState(
         IF resp.body.disabled.t = "arr"
           THEN sanitizeDisabledApps(StringsOf(resp.body.disabled.items))
           ELSE {},
         normalizeDisabledModeConfig(resp.body.disabledMode))

\* a reader that never expires an entry
readWithoutExpiry(raw, time) ==
  IF raw.t # "obj" THEN None
  ELSE Some([available |-> IF raw.available.t = "arr" THEN StringsOf(raw.available.items) ELSE {},
             disabled |-> IF raw.disabled.t = "arr" THEN StringsOf(raw.disabled.items) ELSE {},
             disabledMode |-> normalizeDisabledModeConfig(raw.disabledMode)])

readAvailabilityCache(raw, time) ==
  IF raw.t # "obj" THEN None
  ELSE IF ~raw.tsNumber \/ time - raw.timestamp > AVAILABILITY_CACHE_TTL THEN None
  ELSE Some([available |-> IF raw.available.t = "arr" THEN StringsOf(raw.available.items) ELSE {},
             disabled |-> IF raw.disabled.t = "arr" THEN StringsOf(raw.disabled.items) ELSE {},
             disabledMode |-> normalizeDisabledModeConfig(raw.disabledMode)])

writeAvailabilityCache(available, disabled, disabledMode, time) ==
  [t |-> "obj", tsNumber |-> TRUE, timestamp |-> time,
   available |-> RawList(available), disabled |-> RawList(disabled),
   disabledMode |-> StoredMode(disabledMode)]

setRuntimeDisabledApps(disabled) == {name \in disabled : name \notin ALWAYS_ON_APPS}

\* emitDisabledApps: the two window globals, the stored mode and the event.
emitDisabledApps(serverDisabledApps, localDisabled, serverDisabledMode) ==
  LET safeServerDisabledApps == sanitizeDisabledApps(serverDisabledApps)
      safeLocalDisabledApps == sanitizeDisabledApps(localDisabled)
  IN [mfeServerDisabled |-> safeServerDisabledApps,
      mfeDisabledMode |-> serverDisabledMode,
      stored |-> IF serverDisabledMode # None THEN StoredMode(serverDisabledMode)
                 ELSE lsDisabledMode,
      detail |-> [disabled |-> sanitizeDisabledApps(safeServerDisabledApps \cup safeLocalDisabledApps),
                  disabledMode |-> serverDisabledMode]]

\* the names of the strings in a raw list, as the spec reads a source
RawNames(raw) == IF raw.t = "arr" THEN StringsOf(raw.items) ELSE {}
RemoteNames(resp) ==
  IF resp.t = "json" /\ resp.body.t = "obj" THEN RawNames(resp.body.disabled) ELSE {}


(***************************************************************************)
(* The shell UI (root-config-shell-ui.ts), initialised by bootstrap().     *)
(***************************************************************************)
\* an origin, as window.location.origin and event.origin serialise it; the
\* port is absent when it is the default port of the scheme
Origin(scheme, host, port) == [scheme |-> scheme, host |-> host, port |-> port]

ProdPage == Origin("https", "app.example.com", None)
LocalPage == Origin("http", "localhost", Some(9000))
LoopbackPage == Origin("http", "127.0.0.1", Some(9000))
TunnelPage == Origin("https", "dev.devtunnels.ms", None)
Pages == {ProdPage, LocalPage, LoopbackPage, TunnelPage}

\* the hostname test of org-root-config.ts, lines 74-75
hostIsLocal(loc) ==
  loc.host \in {"localhost", "127.0.0.1"} \/ loc.host \in {"dev.devtunnels.ms"}

RECURSIVE digits(_)
digits(n) == IF n < 10 THEN 1 ELSE 1 + digits(n \div 10)

\* /^https?:\/\/(localhost|127\.0\.0\.1)(:\d{1,5})?$/.test(origin)
matchesLoopbackPattern(origin) ==
  /\ origin.scheme \in {"http", "https"}
  /\ origin.host \in {"localhost", "127.0.0.1"}
  /\ origin.port # None => digits(The(origin.port)) \in 1..5

trustAnyOrigin(origin) == TRUE

isTrustedOrigin(origin) ==
  IF origin = location THEN TRUE
  ELSE LET isLocal == location.host = "localhost" \/ location.host = "127.0.0.1"
       IN IF ~isLocal THEN FALSE ELSE matchesLoopbackPattern(origin)

\* readDisabled: the stored list and window.__mfeServerDisabled, merged
readDisabled(raw, serverGlobal) ==
  LET serverDisabled == IF serverGlobal # None
                          THEN {name \in The(serverGlobal) : name \notin ALWAYS_VISIBLE_APPS}
                          ELSE {}
      localDisabled == IF raw.t = "arr"
                         THEN {name \in StringsOf(raw.items) : name \notin ALWAYS_VISIBLE_APPS}
                         ELSE {}
  IN IF raw.t = "badjson" \/ raw.t = "throws" THEN serverDisabled
     ELSE localDisabled \cup serverDisabled

\* the shell UI's own normalizeDisabledModeConfig (lines 81-96): the default
\* stays undefined when the value has none
uiNormalizeDisabledModeConfig(config) ==
  IF config.t = "str" /\ config.s \in DisabledModes
    THEN [default |-> Some(config.s), apps |-> EmptyApps]
  ELSE IF config.t # "obj" THEN [default |-> None, apps |-> EmptyApps]
  ELSE [default |-> IF config.default \in DisabledModes THEN Some(config.default) ELSE None,
        apps |-> IF config.apps.t = "obj"
                   THEN [n \in {k \in DOMAIN config.apps.m : config.apps.m[k] \in DisabledModes}
                           |-> config.apps.m[n]]
                   ELSE EmptyApps]

\* {...a, ...b}
spread(a, b) == [n \in DOMAIN a \cup DOMAIN b |-> IF n \in DOMAIN b THEN b[n] ELSE a[n]]

\* readDisabledModeConfig: the stored value over window.__mfeDisabledMode
readDisabledModeConfig(raw, modeGlobal) ==
  LET storageConfig == IF (raw.t = "str" /\ raw.s \in DisabledModes) \/ raw.t = "obj"
                         THEN raw ELSE RawAbsent
      base == uiNormalizeDisabledModeConfig(StoredMode(modeGlobal))
      override == uiNormalizeDisabledModeConfig(storageConfig)
  IN [default |-> IF override.default # None THEN override.default ELSE base.default,
      apps |-> spread(base.apps, override.apps)]

writeDisabledModeConfig(config) ==
  RawModeObj(IF config.default = Some("placeholder") THEN "placeholder" ELSE "hide",
             RawAppsObj(config.apps))

\* applyIncomingDisabledModeConfig: what "mfe-disabled-mode" holds afterwards
applyIncomingDisabledModeConfig(value, raw, modeGlobal) ==
  LET normalized == uiNormalizeDisabledModeConfig(StoredMode(value))
      current == readDisabledModeConfig(raw, modeGlobal)
      next == [default |-> IF normalized.default # None THEN normalized.default
                           ELSE current.default,
               apps |-> spread(current.apps, normalized.apps)]
      keyOf(c) == [default |-> IF c.default # None THEN The(c.default) ELSE "hide",
                   apps |-> c.apps]
  IN IF keyOf(current) = keyOf(next) THEN raw ELSE writeDisabledModeConfig(next)

\* no channel message heard yet
NoLoss == [n |-> 0, stored |-> RawAbsent]

\* one page only is followed
NoTabs == <<>>

DEFAULT_DISABLED_MODE_BY_APP == [n \in {"@org/header-react"} |-> "placeholder"]

getFallbackDisabledMode(app, defaultMode) ==
  IF app \in DOMAIN DEFAULT_DISABLED_MODE_BY_APP THEN DEFAULT_DISABLED_MODE_BY_APP[app]
  ELSE IF defaultMode # None THEN The(defaultMode)
  ELSE "hide"

\* applyIncomingDisabledModeForApp: what "mfe-disabled-mode" holds afterwards
applyIncomingDisabledModeForApp(app, mode, raw, modeGlobal) ==
  IF app = NonString \/ mode \notin DisabledModes THEN raw
  ELSE LET current == readDisabledModeConfig(raw, modeGlobal)
           defaultMode == IF current.default # None THEN The(current.default) ELSE "hide"
           fallbackMode == getFallbackDisabledMode(app, Some(defaultMode))
           apps == IF mode = fallbackMode
                     THEN [n \in DOMAIN current.apps \ {app} |-> current.apps[n]]
                     ELSE spread(current.apps, app :> mode)
       IN writeDisabledModeConfig([default |-> Some(defaultMode), apps |-> apps])

\* the shell UI's channel listener (lines 795-813): what "mfe-disabled-mode"
\* holds after the message data
onBroadcast(data, raw, modeGlobal) ==
  LET afterApp == IF data.type = "mfe-disabled-mode"
                    THEN applyIncomingDisabledModeForApp(data.app, data.mode, raw, modeGlobal)
                    ELSE raw
  IN IF data.type = "mfe-toggle" /\ data.hasMode
       THEN applyIncomingDisabledModeConfig(data.disabledMode, afterApp, modeGlobal)
       ELSE afterApp

\* the mode each card is rendered with under a stored configuration
renderedModes(raw, modeGlobal) ==
  LET config == readDisabledModeConfig(raw, modeGlobal)
  IN [app \in allApplications |->
        IF app \in DOMAIN config.apps THEN config.apps[app]
        ELSE getFallbackDisabledMode(app, config.default)]

\* resolveDisabledMode for a card without a data-disabled-mode attribute
resolveDisabledMode(app) ==
  LET config == readDisabledModeConfig(lsDisabledMode, mfeDisabledMode)
  IN IF app \in DOMAIN config.apps THEN config.apps[app]
     ELSE getFallbackDisabledMode(app, config.default)

\* the "mfe-toggle" window listener (lines 838-850), run by dispatchEvent
onToggleEvent(detail, raw, modeGlobal) ==
  [stored |-> applyIncomingDisabledModeConfig(detail.disabledMode, raw, modeGlobal),
   lastDisabled |-> detail.disabled]

(***************************************************************************)
(* The inputs the environment can supply.                                  *)
(***************************************************************************)
LocalRaws ==
  { [t |-> "badjson"], RawList({Catalog}), RawList({ProfileVue, NonString}) }

\* what another tab (the status page) stores
OtherTabLists == { RawList({}), RawList({Catalog}) }
OtherTabModes == { RawAbsent, StoredMode(Some(Mode("placeholder", EmptyApps))) }

RawModes ==
  { RawAbsent,
    RawModeObj("bogus", RawAppsObj((Catalog :> "placeholder") @@ (ProfileVue :> "bogus"))) }

RawDisabledLists ==
  { RawAbsent, RawList({Catalog}), RawList({ProfileVue, NonString}) }

JsonBodies ==
  { [t |-> "null"], [t |-> "arr"] } \cup
  { [t |-> "obj", disabled |-> d, disabledMode |-> m] : d \in RawDisabledLists, m \in RawModes }

ToggleResponses ==
  { [t |-> "neterr"], [t |-> "notok"], [t |-> "badjson"] } \cup
  { [t |-> "json", body |-> b] : b \in JsonBodies }

CacheEntry(ts, isNum, available, disabled, mode) ==
  [t |-> "obj", tsNumber |-> isNum, timestamp |-> ts,
   available |-> available, disabled |-> disabled, disabledMode |-> mode]

PlaceholderMode == StoredMode(Some(Mode("placeholder", EmptyApps)))

\* no entry, entries that are not read, and fresh entries
CacheRaws ==
  { [t |-> "none"],
    CacheEntry(T0, FALSE, RawList({Catalog}), RawList({}), RawAbsent),
    CacheEntry(T0 - AVAILABILITY_CACHE_TTL - 1, TRUE, RawList({Catalog}), RawList({}), RawAbsent),
    CacheEntry(T0 - AVAILABILITY_CACHE_TTL, TRUE, RawList({Catalog, ProfileVue}), RawList({}), RawAbsent),
    CacheEntry(T0 - 1, TRUE, RawList({Catalog}), RawList({Catalog}), RawAbsent),
    CacheEntry(T0 - 1, TRUE, RawList({Catalog, ProfileVue}), RawList({ProfileVue, NonString}), PlaceholderMode),
    CacheEntry(T0 - 1, TRUE, RawList({ProfileVue, NonString}), RawList({}), PlaceholderMode),
    CacheEntry(T0 - 1, TRUE, RawNotArray, RawNotArray, RawModeStr("bogus")) }

StorageKeys == {"mfe-disabled", "mfe-disabled-mode", "app-locale"}
BroadcastMessages == {"mfe-toggle", "mfe-disabled-mode", "other", "not-an-object"}
NoName == "<none>"

(***************************************************************************)
(* The guarded reload (safeReload).                                        *)
(***************************************************************************)
\* the reload without the reloadScheduled test
reloadWithoutGuard ==
  /\ reloadScheduled' = TRUE
  /\ reloads' = reloads + 1
  /\ reloadSignals' = IF reloadSignals < MaxSignals THEN reloadSignals + 1 ELSE reloadSignals

\* a reload request that is dropped
reloadDropped == UNCHANGED reloadVars

safeReload ==
  /\ reloadScheduled' = TRUE
  /\ reloads' = IF reloadScheduled THEN reloads ELSE reloads + 1
  /\ reloadSignals' = IF reloadSignals < MaxSignals THEN reloadSignals + 1 ELSE reloadSignals

(***************************************************************************)
(* The pollers.  A poller is [started, last, timer, inFlight, requests,    *)
(* skipped]; timer is the delay of the pending timeout, 0 when none is     *)
(* pending; requests counts the fetches that have not settled; skipped is  *)
(* history: a tick found the request in flight and only re-scheduled.      *)
(***************************************************************************)
PollerIdle == [started |-> FALSE, last |-> None, timer |-> 0, inFlight |-> FALSE,
               requests |-> 0, skipped |-> FALSE, launches |-> 0]

\* a poll that does not look at inFlight
pollWithoutInFlightTest(p, isHidden, activeMs, hiddenMs) ==
  IF isHidden THEN [p EXCEPT !.timer = hiddenMs]
  ELSE [p EXCEPT !.inFlight = TRUE, !.requests = @ + 1]

poll(p, isHidden, activeMs, hiddenMs) ==
  IF p.inFlight THEN [p EXCEPT !.timer = activeMs, !.skipped = TRUE]
  ELSE IF isHidden THEN [p EXCEPT !.timer = hiddenMs]
  ELSE [p EXCEPT !.inFlight = TRUE, !.requests = @ + 1]

\* launches is history: the calls of watchServerToggle so far
watchServerToggle ==
  poll([PollerIdle EXCEPT !.started = TRUE, !.launches = togglePoll.launches + 1],
       hidden, intervalMs, hiddenIntervalMs)

watchAuthBuild ==
  IF ~isLocalhost THEN PollerIdle
  ELSE poll([PollerIdle EXCEPT !.started = TRUE], hidden, authIntervalMs, authHiddenIntervalMs)

(***************************************************************************)
(* bootstrap().                                                            *)
(***************************************************************************)
\* an emitDisabledApps that publishes nothing
publishNothing(e) ==
  UNCHANGED <<mfeServerDisabled, mfeDisabledMode, lsDisabledMode, toggleEvent, uiDisabled>>

Publish(e) ==
  LET heard == onToggleEvent(e.detail, e.stored, e.mfeDisabledMode)
  IN /\ mfeServerDisabled' = Some(e.mfeServerDisabled)
     /\ mfeDisabledMode' = e.mfeDisabledMode
     /\ lsDisabledMode' = heard.stored
     /\ toggleEvent' = Some(e.detail)
     /\ uiDisabled' = heard.lastDisabled

\* a registration that starts the poller but not the layout engine
registerWithoutStart(apps) ==
  /\ registered' = registered \cup apps
  /\ starts' = starts
  /\ togglePoll' = watchServerToggle

RegisterAndStart(apps) ==
  /\ registered' = registered \cup apps
  /\ starts' = starts + 1
  /\ togglePoll' = watchServerToggle

\* a filter without the always-on exemption
availableOnly(available) ==
  {app \in allApplications : app \in available}

\* the applications registered in development mode
availableOrAlwaysOn(available) ==
  {app \in allApplications : app \in ALWAYS_ON_APPS \/ app \in available}

\* bootstrap() up to its first asynchronous boundary
Bootstrap ==
  /\ phase = "start"
  /\ authPoll' = watchAuthBuild
  /\ UNCHANGED <<cfgVars, deviceMode, loaderVars, envVars, reloadVars, errVars, cacheWritten>>
  /\ IF storageThrows
       \* initRootConfigShellUi() catches the failed read (line 368);
       \* getSavedTheme() does not (line 935) and bootstrap() ends at line 958
       THEN /\ uiDisabled' = readDisabled([t |-> "throws"], mfeServerDisabled)
            /\ phase' = "aborted"
            /\ UNCHANGED <<localDisabledApps, bootLocal, toggleVars, availVars, registered,
                           starts, togglePoll, lastPass, snapshot>>
       ELSE /\ localDisabledApps' = getDisabledApps(lsDisabled)
            /\ bootLocal' = RawNames(lsDisabled)
            /\ IF ~isLocalhost
                 THEN /\ phase' = "prodFetch"
                      /\ uiDisabled' = readDisabled(lsDisabled, mfeServerDisabled)
                      /\ UNCHANGED <<toggleVars, availVars, registered, starts, togglePoll, lastPass,
                                     snapshot>>
                 ELSE LET c == readAvailabilityCache(ssCache, now) IN
                      /\ cached' = c
                      /\ snapshot' = c
                      /\ IF c # None
                           THEN LET local == getDisabledApps(lsDisabled)
                                    disabledApps == sanitizeDisabledApps(The(c).disabled \cup local)
                                IN /\ runtimeDisabledApps' = setRuntimeDisabledApps(disabledApps)
                                   /\ currentAvailableApps' = Some(The(c).available)
                                   /\ aliased' = TRUE
                                   /\ availabilityEvent' = Some(The(c).available)
                                   /\ Publish(emitDisabledApps(The(c).disabled, local, The(c).disabledMode))
                                   /\ RegisterAndStart(availableOrAlwaysOn(The(c).available))
                                   /\ lastPass' = Some([path |-> "cache",
                                                        remote |-> RawNames(ssCache.disabled),
                                                        local |-> RawNames(lsDisabled)])
                                   /\ phase' = "hydrated"
                           ELSE /\ phase' = "probing"
                                /\ uiDisabled' = readDisabled(lsDisabled, mfeServerDisabled)
                                /\ UNCHANGED <<toggleVars, availabilityEvent, currentAvailableApps,
                                               aliased, registered, starts, togglePoll, lastPass>>

\* production: the .then of getServerToggleState()
ProdToggleResolvedOn(responses) ==
  /\ phase = "prodFetch"
  /\ \E resp \in responses :
       LET serverToggle == getServerToggleState(resp)
           serverDisabledApps == serverToggle.disabled
           disabledApps == sanitizeDisabledApps(localDisabledApps \cup serverDisabledApps)
       IN /\ runtimeDisabledApps' = setRuntimeDisabledApps(disabledApps)
          /\ Publish(emitDisabledApps(serverDisabledApps, localDisabledApps, serverToggle.disabledMode))
          /\ lastPass' = Some([path |-> "production",
                               remote |-> RemoteNames(resp),
                               local |-> bootLocal])
  /\ RegisterAndStart(allApplications)
  /\ phase' = "settled"
  /\ UNCHANGED <<cfgVars, deviceMode, loaderVars, envVars, reloadVars, availVars, errVars,
                 localDisabledApps, cacheWritten, bootLocal, snapshot, authPoll>>

\* the re-probe timer set when the cache was hydrated
RefreshTimer ==
  /\ phase = "hydrated"
  /\ phase' = IF hidden THEN "settled" ELSE "probing"
  /\ UNCHANGED <<cfgVars, shellVars, loaderVars, envVars, reloadVars, toggleVars, availVars, errVars,
                 localDisabledApps, registered, starts, cacheWritten, lastPass, bootLocal, snapshot,
                 pollVars>>

\* a test that lets every pass register
everyPass(c) == TRUE

\* if (!cached): the pass of a page that did not start from the cache
firstPass(c) == c = None

divergence(c, availableApps, serverDisabledApps, disabledMode) ==
  \/ Cardinality(c.available) # Cardinality(availableApps)
  \/ Cardinality(c.disabled) # Cardinality(serverDisabledApps)
  \/ c.disabledMode # disabledMode
  \/ \E name \in c.available : name \notin availableApps
  \/ \E name \in c.disabled : name \notin serverDisabledApps

\* runAvailabilityCheck: the .then of the probe and the toggle fetch
AvailabilityResolvedOn(probes, responses) ==
  /\ phase = "probing"
  /\ \E availableApps \in probes, resp \in responses :
       LET serverToggle == getServerToggleState(resp)
           local == getDisabledApps(lsDisabled)
           serverDisabledApps == serverToggle.disabled
           disabledApps == sanitizeDisabledApps(serverDisabledApps \cup local)
       IN /\ runtimeDisabledApps' = setRuntimeDisabledApps(disabledApps)
          /\ ssCache' = writeAvailabilityCache(availableApps, serverDisabledApps,
                                               serverToggle.disabledMode, now)
          /\ cacheWritten' = TRUE
          /\ currentAvailableApps' = Some(availableApps)
          /\ aliased' = FALSE
          /\ availabilityEvent' = Some(availableApps)
          /\ Publish(emitDisabledApps(serverDisabledApps, local, serverToggle.disabledMode))
          /\ lastPass' = Some([path |-> "probe",
                               remote |-> RemoteNames(resp),
                               local |-> RawNames(lsDisabled)])
          /\ IF firstPass(cached)
               THEN /\ RegisterAndStart(availableOrAlwaysOn(availableApps))
                    /\ UNCHANGED reloadVars
               ELSE /\ UNCHANGED <<registered, starts, togglePoll>>
                    /\ IF divergence(The(cached), availableApps, serverDisabledApps,
                                     serverToggle.disabledMode)
                         THEN safeReload
                         ELSE UNCHANGED reloadVars
  /\ phase' = "settled"
  /\ UNCHANGED <<cfgVars, deviceMode, loaderVars, now, hidden, lsDisabled, cached, errVars,
                 localDisabledApps, bootLocal, snapshot, authPoll>>


ProdToggleResolved == ProdToggleResolvedOn(ToggleResponses)
AvailabilityResolved ==
  AvailabilityResolvedOn({{}, {Catalog}, {Catalog, ProfileVue, SimpleVanilla}}, ToggleResponses)

(***************************************************************************)
(* Events delivered to the page once bootstrap() has registered its        *)
(* listeners.                                                              *)
(***************************************************************************)
\* another tab wrote the key; the storage listener of lines 966-970 runs
StorageEvent(key) ==
  /\ phase # "start"
  /\ \/ /\ key = "mfe-disabled"
        /\ \E raw \in OtherTabLists \ {lsDisabled} : lsDisabled' = raw
        /\ UNCHANGED <<lsDisabledMode, deviceMode>>
     \/ /\ key = "mfe-disabled-mode"
        /\ \E raw \in OtherTabModes \ {lsDisabledMode} : lsDisabledMode' = raw
        /\ deviceMode' = lsDisabledMode'
        /\ UNCHANGED lsDisabled
     \/ /\ key = "app-locale"
        /\ UNCHANGED <<lsDisabled, lsDisabledMode, deviceMode>>
  \* the shell UI's storage listener (root-config-shell-ui.ts, lines 781-788)
  /\ uiDisabled' = IF key = "mfe-disabled" \/ key = "mfe-disabled-mode"
                     THEN readDisabled(lsDisabled', mfeServerDisabled)
                     ELSE uiDisabled
  /\ IF key = "mfe-disabled" \/ key = "mfe-disabled-mode"
       THEN safeReload
       ELSE UNCHANGED reloadVars
  /\ UNCHANGED <<cfgVars, loaderVars, now, hidden, ssCache, runtimeDisabledApps,
                 mfeServerDisabled, mfeDisabledMode, toggleEvent, availVars, errVars, startVars,
                 pollVars>>

\* a message on the "mfe-disabled-sync" channel (lines 972-982) whose data
\* carries the type and neither a disabledMode nor an app; the shell UI's
\* channel (root-config-shell-ui.ts, lines 793-818) hears it too
BroadcastMessage(type) ==
  /\ phase # "start"
  /\ IF type = "mfe-toggle" \/ type = "mfe-disabled-mode"
       THEN /\ safeReload
            /\ uiDisabled' = readDisabled(lsDisabled, mfeServerDisabled)
       ELSE UNCHANGED <<reloadVars, uiDisabled>>
  /\ UNCHANGED <<cfgVars, deviceMode, loaderVars, envVars, toggleVars, availVars, errVars,
                 startVars, pollVars>>

\* what a message on the channel carries: a per-application mode, or a
\* toggle with or without the property disabledMode
ModeMessage(app, mode) ==
  [type |-> "mfe-disabled-mode", app |-> app, mode |-> mode, hasMode |-> FALSE,
   disabledMode |-> None]
ToggleMessage(hasMode, disabledMode) ==
  [type |-> "mfe-toggle", app |-> NonString, mode |-> "none", hasMode |-> hasMode,
   disabledMode |-> disabledMode]
ChannelMessages ==
  { ModeMessage(Catalog, "placeholder"), ModeMessage(Catalog, "hide"),
    ModeMessage(ProfileVue, "placeholder"), ModeMessage(NonString, "hide"),
    ModeMessage(Catalog, "bogus"),
    ToggleMessage(FALSE, None),
    ToggleMessage(TRUE, None),
    ToggleMessage(TRUE, Some(Mode("placeholder", EmptyApps))),
    ToggleMessage(TRUE, Some(Mode("hide", ProfileVue :> "placeholder"))) }

\* a message with a payload on the "mfe-disabled-sync" channel: the root
\* config's listener (lines 972-982) and the shell UI's (793-818) both hear it
BroadcastPayload(data) ==
  /\ phase # "start"
  /\ safeReload
  /\ lsDisabledMode' = onBroadcast(data, lsDisabledMode, mfeDisabledMode)
  /\ uiDisabled' = readDisabled(lsDisabled, mfeServerDisabled)
  /\ lost' = IF phase # "settled" THEN lost
             ELSE IF lost.n = 0 THEN [n |-> 1, stored |-> lsDisabledMode]
             ELSE [n |-> 2, stored |-> onBroadcast(data, lost.stored, mfeDisabledMode)]
  /\ UNCHANGED <<fixedVars, serverVars, deviceMode, loaderVars, envVars, runtimeDisabledApps,
                 mfeServerDisabled, mfeDisabledMode, toggleEvent, availVars, errVars,
                 startVars, pollVars>>

\* what a window "message" event carries
MessageData ==
  { [t |-> "null"],
    [t |-> "obj", type |-> "mfe-toggle", disabled |-> RawList({SimpleVanilla, NonString})],
    [t |-> "obj", type |-> "mfe-toggle", disabled |-> RawNotArray],
    [t |-> "obj", type |-> "other", disabled |-> RawList({SimpleVanilla})] }

\* where a message can come from: the page itself, loopback hosts, and others
Origins ==
  Pages \cup
  { Origin("http", "localhost", Some(4200)),
    Origin("https", "127.0.0.1", None),
    Origin("http", "127.0.0.1", Some(65535)),
    Origin("http", "localhost.example.com", None),
    Origin("ws", "localhost", Some(9000)),
    Origin("null", "", None) }

\* the window "message" listener (root-config-shell-ui.ts, lines 827-836)
WindowMessage(origin, data) ==
  /\ phase # "start"
  /\ uiDisabled' = IF ~isTrustedOrigin(origin) THEN uiDisabled
                   ELSE IF data.t # "obj" THEN uiDisabled
                   ELSE IF data.type # "mfe-toggle" \/ data.disabled.t # "arr" THEN uiDisabled
                   ELSE StringsOf(data.disabled.items)
  /\ UNCHANGED <<cfgVars, deviceMode, loaderVars, envVars, reloadVars, toggleVars, availVars,
                 errVars, startVars, pollVars>>

\* scheduleVisibilityUpdate's animation frame (lines 709-718), requested when
\* an application changes or a card is added
VisibilityUpdate ==
  /\ phase # "start"
  /\ uiDisabled' = readDisabled(lsDisabled, mfeServerDisabled)
  /\ UNCHANGED <<cfgVars, deviceMode, loaderVars, envVars, reloadVars, toggleVars, availVars,
                 errVars, startVars, pollVars>>

\* the addErrorHandler callback (lines 904-923)
ErrorHandler(appName) ==
  /\ phase # "start"
  /\ IF appName = NoName \/ appName \in failedApps
       THEN UNCHANGED <<failedApps, errorEvent, availVars>>
       ELSE /\ failedApps' = failedApps \cup {appName}
            /\ errorEvent' = Some(appName)
            /\ IF currentAvailableApps # None /\ appName \in The(currentAvailableApps)
                 THEN /\ currentAvailableApps' = Some(The(currentAvailableApps) \ {appName})
                      /\ availabilityEvent' = Some(The(currentAvailableApps) \ {appName})
                      \* Set.delete acts on the object, which the cached snapshot may share
                      /\ cached' = IF aliased
                                     THEN Some([The(cached) EXCEPT !.available = @ \ {appName}])
                                     ELSE cached
                      /\ UNCHANGED aliased
                 ELSE UNCHANGED availVars
  /\ UNCHANGED <<cfgVars, shellVars, loaderVars, envVars, reloadVars, toggleVars, startVars, pollVars>>

\* visibilitychange: each started poller polls when the page becomes visible
VisibilityChange ==
  /\ hidden' = ~hidden
  /\ togglePoll' = IF hidden /\ togglePoll.started
                     THEN poll(togglePoll, FALSE, intervalMs, hiddenIntervalMs)
                     ELSE togglePoll
  /\ authPoll' = IF hidden /\ authPoll.started
                   THEN poll(authPoll, FALSE, authIntervalMs, authHiddenIntervalMs)
                   ELSE authPoll
  /\ UNCHANGED <<cfgVars, shellVars, loaderVars, now, lsDisabled, ssCache, reloadVars, toggleVars, availVars,
                 errVars, startVars>>

(***************************************************************************)
(* The pollers' ticks and responses.                                       *)
(***************************************************************************)
PollBodies ==
  { [t |-> "null"], [t |-> "arr"],
    [t |-> "obj", disabled |-> RawList({}), disabledMode |-> RawAbsent],
    [t |-> "obj", disabled |-> RawList({Catalog}), disabledMode |-> RawAbsent] }

PollResponses ==
  { [t |-> "timeout"], [t |-> "notok"], [t |-> "badjson"] } \cup
  { [t |-> "json", body |-> b] : b \in PollBodies }

TogglePollTimer ==
  /\ togglePoll.timer # 0
  /\ togglePoll' = poll([togglePoll EXCEPT !.timer = 0], hidden, intervalMs, hiddenIntervalMs)
  /\ UNCHANGED <<cfgVars, shellVars, loaderVars, envVars, reloadVars, toggleVars, availVars, errVars, startVars, authPoll>>

\* handlers that re-schedule from the success handler, not from finally
respondWithoutFinally(responses) ==
  /\ togglePoll.inFlight
  /\ \E resp \in responses :
       LET data == IF resp.t = "json" /\ resp.body.t \in {"obj", "arr"}
                     THEN Some(resp.body) ELSE None
       IN /\ IF data # None /\ togglePoll.last # None /\ data # togglePoll.last
               THEN safeReload
               ELSE UNCHANGED reloadVars
          /\ togglePoll' = [togglePoll EXCEPT
                              !.last = IF data = None THEN @ ELSE data,
                              !.inFlight = FALSE,
                              !.requests = @ - 1,
                              !.skipped = FALSE,
                              !.timer = IF data = None THEN @ ELSE intervalMs]
  /\ UNCHANGED <<cfgVars, shellVars, loaderVars, envVars, toggleVars, availVars, errVars, startVars, authPoll>>

\* the handlers of the toggle poll's request (lines 487-503); data is what
\* passes the test !data || typeof data !== "object" of line 490
TogglePollResponseOn(responses) ==
  /\ togglePoll.inFlight
  /\ \E resp \in responses :
       LET data == IF resp.t = "json" /\ resp.body.t \in {"obj", "arr"}
                     THEN Some(resp.body) ELSE None
       IN /\ IF data # None /\ togglePoll.last # None /\ data # togglePoll.last
               THEN safeReload
               ELSE UNCHANGED reloadVars
          /\ togglePoll' = [togglePoll EXCEPT
                              !.last = IF data = None THEN @ ELSE data,
                              !.inFlight = FALSE,
                              !.requests = @ - 1,
                              !.skipped = FALSE,
                              !.timer = intervalMs]
  /\ UNCHANGED <<cfgVars, shellVars, loaderVars, envVars, toggleVars, availVars, errVars, startVars, authPoll>>

TogglePollResponse == TogglePollResponseOn(PollResponses)

DigitStrings == {"1", "2"}
BuildIds ==
  { [t |-> "absent"], [t |-> "num", v |-> 1], [t |-> "num", v |-> 2],
    [t |-> "str", s |-> "1"], [t |-> "str", s |-> "next"] }
BuildResponses ==
  { [t |-> "timeout"], [t |-> "notok"], [t |-> "json", body |-> [t |-> "null"]] } \cup
  { [t |-> "json", body |-> [t |-> "obj", buildId |-> b]] : b \in BuildIds }

\* the build id a response carries, if any
buildIdOf(resp) ==
  IF resp.t # "json" \/ resp.body.t # "obj" THEN None
  ELSE LET raw == resp.body.buildId
       IN IF raw.t = "num" THEN Some(ToString(raw.v))
          ELSE IF raw.t = "str" /\ raw.s \in DigitStrings THEN Some(raw.s)
          ELSE None

AuthPollTimer ==
  /\ authPoll.timer # 0
  /\ authPoll' = poll([authPoll EXCEPT !.timer = 0], hidden, authIntervalMs, authHiddenIntervalMs)
  /\ UNCHANGED <<cfgVars, shellVars, loaderVars, envVars, reloadVars, toggleVars, availVars, errVars, startVars, togglePoll>>

AuthPollResponse ==
  /\ authPoll.inFlight
  /\ \E resp \in BuildResponses :
       LET next == buildIdOf(resp)
           changed == next # None /\ authPoll.last # None /\ next # authPoll.last
       IN /\ IF changed THEN safeReload ELSE UNCHANGED reloadVars
          /\ authPoll' = [authPoll EXCEPT
                            !.last = IF next = None \/ changed THEN @ ELSE next,
                            !.inFlight = FALSE,
                            !.requests = @ - 1,
                            !.skipped = FALSE,
                            !.timer = authIntervalMs]
  /\ UNCHANGED <<cfgVars, shellVars, loaderVars, envVars, toggleVars, availVars, errVars, startVars, togglePoll>>


(***************************************************************************)
(* The script loader (loadUmdScript).  A tracked promise is "loading"      *)
(* until the script element fires load or error, "errored" between the     *)
(* error event and the run of the eviction handler, then "rejected".       *)
(***************************************************************************)
Url(base) == [base |-> base, bust |-> None]

withCacheBust(url) == IF isLocalhost THEN [url EXCEPT !.bust = @ \cup {now}] ELSE url

cacheKey(url) == [url |-> url, t |-> IF isLocalhost THEN Some(now) ELSE None]

\* a loader that does not consult umdLoads
loadWithoutLookup(url) ==
  LET key == [url |-> url, t |-> IF isLocalhost THEN Some(now) ELSE None]
      fresh == Len(scriptPromises) + 1
  IN [p |-> fresh, inserted |-> TRUE,
      loads |-> {e \in umdLoads : e.key # key} \cup {[key |-> key, p |-> fresh]},
      promises |-> Append(scriptPromises, [key |-> key, st |-> "loading"])]

\* the result of loadUmdScript(url): the promise returned and the new Map
loadUmdScript(url) ==
  LET key == cacheKey(url)
      hit == {e \in umdLoads : e.key = key}
      fresh == Len(scriptPromises) + 1
  IN IF hit # {}
       THEN [p |-> The(hit).p, inserted |-> FALSE,
             loads |-> umdLoads, promises |-> scriptPromises]
       ELSE [p |-> fresh, inserted |-> TRUE,
             loads |-> umdLoads \cup {[key |-> key, p |-> fresh]},
             promises |-> Append(scriptPromises, [key |-> key, st |-> "loading"])]

\* a rejection handler that leaves the entry in place
keepEntry(loads, key) == loads

\* umdLoads.delete(cacheKey)
evict(loads, key) == {e \in loads : e.key # key}

\* one call of loadUmdScript, recorded with what the caller could see
RecordScriptCall(url, r) ==
  /\ umdLoads' = r.loads
  /\ scriptPromises' = r.promises
  /\ scalls' = Append(scalls, [key |-> cacheKey(url), p |-> r.p, inserted |-> r.inserted,
                               seen |-> scriptPromises])

\* umdApps[name].url and localAppUrls[name]
umdUrl(name) ==
  IF name = ProfileVue THEN Url("//localhost:9002/profile-vue.js")
  ELSE Url("//localhost:9009/org-simple-vanilla.js")
localUrl(name) ==
  IF name = Catalog THEN Url("http://localhost:9001/org-catalog.js")
  ELSE IF name = ProfileVue THEN Url("http://localhost:9002/profile-vue.js")
  ELSE Url("http://localhost:9009/org-simple-vanilla.js")

ScriptUrls == {umdUrl(name) : name \in umdApps}

LoadUmdScriptCall(url) ==
  /\ Len(scalls) < MaxScriptCalls
  /\ RecordScriptCall(url, loadUmdScript(url))
  /\ UNCHANGED <<cfgVars, shellVars, envVars, reloadVars, toggleVars, availVars, errVars, startVars,
                 pollVars, detectVars, sources, calls>>

\* script.onload
ScriptLoaded(p) ==
  /\ scriptPromises[p].st = "loading"
  /\ scriptPromises' = [scriptPromises EXCEPT ![p].st = "resolved"]
  /\ UNCHANGED <<cfgVars, shellVars, envVars, reloadVars, toggleVars, availVars, errVars, startVars,
                 pollVars, umdLoads, scalls, detectVars, sources, calls>>

\* script.onerror
ScriptError(p) ==
  /\ scriptPromises[p].st = "loading"
  /\ scriptPromises' = [scriptPromises EXCEPT ![p].st = "errored"]
  /\ UNCHANGED <<cfgVars, shellVars, envVars, reloadVars, toggleVars, availVars, errVars, startVars,
                 pollVars, umdLoads, scalls, detectVars, sources, calls>>

\* the .catch handler of lines 335-339
ScriptRejectionHandled(p) ==
  /\ scriptPromises[p].st = "errored"
  /\ umdLoads' = evict(umdLoads, scriptPromises[p].key)
  /\ scriptPromises' = [scriptPromises EXCEPT ![p].st = "rejected"]
  /\ UNCHANGED <<cfgVars, shellVars, envVars, reloadVars, toggleVars, availVars, errVars, startVars,
                 pollVars, scalls, detectVars, sources, calls>>

(***************************************************************************)
(* The module format detector (detectModuleFormat).  A source text is a    *)
(* sequence of tokens: "comment", "widecomment" (a comment whose           *)
(* characters take more than one byte each), "usestrict" ("use strict";),  *)
(* "sysreg" (System.register( ), "typeofexports", "defineamd",             *)
(* "moduleexports", "import" (a line that starts with an import or export  *)
(* statement), "nlexport" (export{ at the start of a line), "iexport"      *)
(* (export{ inside a line) and "code".  HeadLen and TailLen tokens stand   *)
(* for the 8192 and 4096 characters of the head and the tail; the range    *)
(* request asks for 8192 bytes, HeadLen byte units.                        *)
(***************************************************************************)
Resolved(v) == [st |-> "resolved", v |-> v]
Rejected == [st |-> "rejected", v |-> "error"]

Min(a, b) == IF a < b THEN a ELSE b
Max(a, b) == IF a < b THEN b ELSE a
Tokens(text) == {text[i] : i \in DOMAIN text}
\* source.slice(0, 8192) and source.slice(-4096)
sliceHead(text) == SubSeq(text, 1, Min(Len(text), HeadLen))
sliceTail(text) == SubSeq(text, Max(1, Len(text) - TailLen + 1), Len(text))

\* the body of the 206 answer to Range: bytes=0-8191: the characters that
\* fit in HeadLen byte units
bytesOf(token) == IF token = "widecomment" THEN 2 ELSE 1
RECURSIVE byteLength(_)
byteLength(text) == IF text = <<>> THEN 0 ELSE bytesOf(Head(text)) + byteLength(Tail(text))
rangePrefix(text) ==
  LET fits == {n \in 0..Len(text) : byteLength(SubSeq(text, 1, n)) <= HeadLen}
  IN SubSeq(text, 1, CHOOSE n \in fits : \A m \in fits : m <= n)

hasSystemRegister(head) ==
  \E k \in DOMAIN head :
    /\ head[k] = "sysreg"
    /\ \A i \in 1..(k - 1) : \/ head[i] \in {"comment", "widecomment"}
                              \/ (i = k - 1 /\ head[i] = "usestrict")

\* "umdheader" is a stretch of text that holds all three wrapper tokens
hasUmdWrapper(head) ==
  \/ {"typeofexports", "defineamd", "moduleexports"} \subseteq Tokens(head)
  \/ "umdheader" \in Tokens(head)

\* module syntax looked for in the source only, not in the tail
hasEsmSyntaxInSource(source, tail) ==
  "import" \in {source[i] : i \in DOMAIN source} \/ "nlexport" \in {source[i] : i \in DOMAIN source}

hasEsmSyntax(source, tail) ==
  \/ "import" \in Tokens(source)
  \/ "nlexport" \in Tokens(source)
  \/ "nlexport" \in Tokens(tail)
  \/ "iexport" \in Tokens(tail)

\* the wrapper tokens tested before the preamble
analyzeSourceWrapperFirst(head, tail, full) ==
  IF hasUmdWrapper(head) THEN "umd"
  ELSE IF hasSystemRegister(head) THEN "system"
  ELSE IF hasEsmSyntax(IF full = None THEN head ELSE The(full), tail) THEN "esm"
  ELSE "unknown"

\* full is optional: the source examined for module syntax is full ?? head
analyzeSource(head, tail, full) ==
  IF hasSystemRegister(head) THEN "system"
  ELSE IF hasUmdWrapper(head) THEN "umd"
  ELSE IF hasEsmSyntax(IF full = None THEN head ELSE The(full), tail) THEN "esm"
  ELSE "unknown"

\* a chain without the final catch
rethrow(outcome) == outcome

\* the final .catch(() => "unknown") of line 435
catchUnknown(outcome) == IF outcome.st = "rejected" THEN Resolved("unknown") ELSE outcome

\* moduleFormatCache.set(url, format)
setFormat(cache, url, format) == {e \in cache : e.url # url} \cup {[url |-> url, format |-> format]}

DetectUrls == {Url("http://localhost:9001/org-catalog.js"), Url("http://localhost:9006/playground-vue.js")}

RangeKinds == {"neterr", "notok", "206", "200", "bodyerr"}
FullKinds == {"neterr", "notok", "ok", "bodyerr"}

\* a detection in flight with another detection of the same URL
InFlight(url) == \E k \in DOMAIN dtasks : dtasks[k].url = url /\ dtasks[k].pc # "done"

\* detectModuleFormat(url) up to its first request: a task of dtasks
startDetect(url) ==
  LET hit == {e \in moduleFormatCache : e.url = url}
      base == [url |-> url, overlap |-> InFlight(url), range |-> "none", full |-> "none",
               stored |-> FALSE]
  IN IF hit # {}
       THEN base @@ [pc |-> "done", reqs |-> 0, outcome |-> Some(Resolved(The(hit).format))]
       ELSE base @@ [pc |-> "range", reqs |-> 1, outcome |-> None]

\* the task after the response to the range request
onRange(task, kind) ==
  LET text == sources[task.url]
      t == [task EXCEPT !.range = kind]
      done(o, st) == [t EXCEPT !.pc = "done", !.outcome = Some(catchUnknown(o)), !.stored = st]
  IN CASE kind \in {"neterr", "bodyerr"} -> done(Rejected, FALSE)
       [] kind = "notok" -> done(Resolved("unknown"), FALSE)
       [] kind = "206" ->
            LET format == analyzeSource(rangePrefix(text), <<>>, None)
            IN IF format # "unknown" THEN done(Resolved(format), TRUE)
               ELSE [t EXCEPT !.pc = "full", !.reqs = @ + 1]
       [] kind = "200" ->
            done(Resolved(analyzeSource(sliceHead(text), sliceTail(text), Some(text))), TRUE)

\* the task after the response to the full-body request
onFull(task, kind) ==
  LET text == IF kind = "ok" THEN sources[task.url] ELSE <<>>
      t == [task EXCEPT !.full = kind]
  IN IF kind \in {"neterr", "bodyerr"}
       THEN [t EXCEPT !.pc = "done", !.outcome = Some(catchUnknown(Rejected))]
       ELSE [t EXCEPT !.pc = "done", !.stored = TRUE,
               !.outcome = Some(catchUnknown(Resolved(
                   analyzeSource(sliceHead(text), sliceTail(text), Some(text)))))]

\* the moduleFormatCache.set calls of lines 411, 420 and 431
storeOf(task, cache) ==
  IF task.stored /\ task.pc = "done" THEN setFormat(cache, task.url, The(task.outcome).v)
  ELSE cache

DetectCall(url) ==
  /\ Len(dtasks) < MaxDetects
  /\ dtasks' = Append(dtasks, startDetect(url))
  /\ UNCHANGED <<cfgVars, shellVars, envVars, reloadVars, toggleVars, availVars, errVars, startVars,
                 pollVars, scriptVars, moduleFormatCache, sources, calls>>

RangeResponse(i, kind) ==
  /\ dtasks[i].pc = "range"
  /\ dtasks' = [dtasks EXCEPT ![i] = onRange(@, kind)]
  /\ moduleFormatCache' = storeOf(onRange(dtasks[i], kind), moduleFormatCache)
  /\ UNCHANGED <<cfgVars, shellVars, envVars, reloadVars, toggleVars, availVars, errVars, startVars,
                 pollVars, scriptVars, sources, calls>>

FullResponse(i, kind) ==
  /\ dtasks[i].pc = "full"
  /\ dtasks' = [dtasks EXCEPT ![i] = onFull(@, kind)]
  /\ moduleFormatCache' = storeOf(onFull(dtasks[i], kind), moduleFormatCache)
  /\ UNCHANGED <<cfgVars, shellVars, envVars, reloadVars, toggleVars, availVars, errVars, startVars,
                 pollVars, scriptVars, sources, calls>>

(***************************************************************************)
(* loadApp.  A call is [name, pc, p, d, tried, failed, outcome]: p the      *)
(* script promise and d the detection it waits for, tried the steps it has *)
(* started, failed those that failed, outcome what the returned promise    *)
(* settled to.                                                             *)
(***************************************************************************)
\* createUnavailableApp(name): the no-op lifecycle handle
createUnavailableApp == "noop"

\* .then(mod => wrapModuleLifecycles(name, mod)): throws when mod is undefined
thenWrap(outcome, modDefined) ==
  IF outcome.st = "rejected" THEN Rejected
  ELSE IF modDefined THEN Resolved("module") ELSE Rejected

\* a chain without the catch that substitutes the no-op handle
propagate(outcome) == outcome

\* .catch(error => createUnavailableApp(name))
catchUnavailable(outcome) ==
  IF outcome.st = "rejected" THEN Resolved(createUnavailableApp) ELSE outcome

scriptOutcome(p) ==
  IF scriptPromises[p].st = "resolved" THEN Resolved("loaded") ELSE Rejected
scriptSettled(p) == scriptPromises[p].st \in {"resolved", "rejected"}

\* a loader that skips the disabled test
neverDisabled(name) == FALSE

\* runtimeDisabledApps.has(name)
isDisabled(name) == name \in runtimeDisabledApps

\* a loader that looks at the format-adaptive registry first
strategySystemFirstBeforeUmd(name) ==
  IF isDisabled(name) THEN "disabled"
  ELSE IF name \in systemFirstApps THEN "systemFirst"
  ELSE IF name \in umdApps THEN "umd"
  ELSE "native"

\* the branch loadApp takes: the tests of lines 623, 626, 636 in their order
strategyOf(name) ==
  IF isDisabled(name) THEN "disabled"
  ELSE IF name \in umdApps THEN "umd"
  ELSE IF name \in systemFirstApps THEN "systemFirst"
  ELSE "native"

\* a performance mark mfe:<name>:<phase>:<edge> of one load
Mark(lifecycle, edge) == [phase |-> lifecycle, edge |-> edge]

NewCall(name, pc, tried) ==
  [name |-> name, pc |-> pc, p |-> 0, d |-> 0, tried |-> tried, failed |-> <<>>,
   outcome |-> None, disabledAtCall |-> name \in runtimeDisabledApps, global |-> None,
   strategy |-> strategyOf(name),
   \* performance.mark(`mfe:${name}:load:start`) of line 621, and the
   \* lifecycle the layout engine has invoked on the returned handle
   marks |-> <<Mark("load", "start")>>, phase |-> None, running |-> FALSE]

\* .finally(() => finalizeLoadMetrics(name)): the start mark of line 621 is
\* there, the callback returns and the outcome passes through
finalizeLoadMetrics(outcome) == outcome

Finish(call, outcome) ==
  [call EXCEPT !.pc = "done", !.outcome = Some(finalizeLoadMetrics(outcome)),
               !.marks = Append(@, Mark("load", "end"))]

\* loadApp({ name }) up to its first asynchronous boundary
LoadApp(name) ==
  /\ Len(calls) < MaxCalls
  /\ name \in registered
  /\ IF strategyOf(name) = "disabled"
       THEN /\ calls' = Append(calls, Finish(NewCall(name, "done", <<>>),
                                             Resolved(createUnavailableApp)))
            /\ UNCHANGED <<scriptVars, dtasks>>
     ELSE IF strategyOf(name) = "umd"
       THEN LET r == loadUmdScript(umdUrl(name))
            IN /\ RecordScriptCall(umdUrl(name), r)
               /\ calls' = Append(calls, [NewCall(name, "umd", <<"script">>) EXCEPT !.p = r.p])
               /\ UNCHANGED dtasks
     ELSE IF strategyOf(name) = "systemFirst"
       THEN IF isLocalhost /\ name \in localAppUrls
              THEN /\ dtasks' = Append(dtasks, startDetect(localUrl(name)))
                   /\ calls' = Append(calls, [NewCall(name, "detect", <<"detect">>)
                                                EXCEPT !.d = Len(dtasks) + 1])
                   /\ UNCHANGED scriptVars
              ELSE /\ calls' = Append(calls, NewCall(name, "primary", <<"import-name">>))
                   /\ UNCHANGED <<scriptVars, dtasks>>
     ELSE /\ calls' = Append(calls, NewCall(name, "native", <<"import-name">>))
          /\ UNCHANGED <<scriptVars, dtasks>>
  /\ UNCHANGED <<cfgVars, shellVars, envVars, reloadVars, toggleVars, availVars, errVars, startVars,
                 pollVars, moduleFormatCache, sources>>

\* the UMD branch once the script promise has settled (lines 628-634)
UmdSettled(c, globalDefined) ==
  /\ calls[c].pc = "umd"
  /\ scriptSettled(calls[c].p)
  /\ LET o == thenWrap(scriptOutcome(calls[c].p), globalDefined)
     IN calls' = [calls EXCEPT ![c] =
                    Finish([@ EXCEPT !.failed = IF o.st = "rejected" THEN Append(@, "script") ELSE @],
                           catchUnavailable(o))]
  /\ UNCHANGED <<cfgVars, shellVars, envVars, reloadVars, toggleVars, availVars, errVars, startVars,
                 pollVars, scriptVars, detectVars, sources>>

\* systemFirstUmdGlobals[name] || name (line 646)
PlaygroundVue == "@org/playground-vue"
systemFirstUmdGlobals == (PlaygroundVue :> "playgroundVue")
globalNameOf(name) ==
  IF name \in DOMAIN systemFirstUmdGlobals THEN systemFirstUmdGlobals[name] ELSE name

\* a choice that treats a native module like an unknown one
importStepNativeAsUnknown(format) ==
  IF format \in {"unknown", "esm"} THEN "nativeFirst" ELSE "primary"

\* the import of lines 642-660 for a format that is not umd: only the
\* unknown format has the inner catch that goes on to System
importStep(format) ==
  IF format = "unknown" THEN "nativeFirst" ELSE "primary"

\* the .then of detectModuleFormat (lines 639-661)
DetectSettled(c) ==
  /\ calls[c].pc = "detect"
  /\ dtasks[calls[c].d].pc = "done"
  /\ LET o == The(dtasks[calls[c].d].outcome)
         importUrl == withCacheBust(localUrl(calls[c].name))
     IN IF o.st = "rejected"
          THEN /\ calls' = [calls EXCEPT ![c].pc = "fallback",
                                         ![c].tried = Append(@, "fallback-import")]
               /\ UNCHANGED scriptVars
        ELSE IF o.v = "umd"
          THEN LET r == loadUmdScript(importUrl)
               IN /\ RecordScriptCall(importUrl, r)
                  /\ calls' = [calls EXCEPT ![c].pc = "sfumd", ![c].p = r.p,
                                            ![c].global = Some(globalNameOf(calls[c].name)),
                                            ![c].tried = Append(@, "script")]
        ELSE /\ calls' = [calls EXCEPT
                            ![c].pc = importStep(o.v),
                            ![c].tried = Append(@, IF o.v = "system" THEN "system-import"
                                                   ELSE "native-import")]
             /\ UNCHANGED scriptVars
  /\ UNCHANGED <<cfgVars, shellVars, envVars, reloadVars, toggleVars, availVars, errVars, startVars,
                 pollVars, detectVars, sources>>

\* the format-adaptive UMD load once the script promise has settled (645-654)
SfUmdSettled(c, globalDefined) ==
  /\ calls[c].pc = "sfumd"
  /\ scriptSettled(calls[c].p)
  /\ calls' = IF thenWrap(scriptOutcome(calls[c].p), globalDefined).st = "resolved"
                THEN [calls EXCEPT ![c] = Finish(@, Resolved("module"))]
                ELSE [calls EXCEPT ![c].pc = "fallback",
                                   ![c].failed = Append(@, "script"),
                                   ![c].tried = Append(@, "fallback-import")]
  /\ UNCHANGED <<cfgVars, shellVars, envVars, reloadVars, toggleVars, availVars, errVars, startVars,
                 pollVars, scriptVars, detectVars, sources>>

\* a dynamic import (native or through System) settles
ImportSettled(c, ok) ==
  /\ calls[c].pc \in {"primary", "nativeFirst", "fallback", "native"}
  /\ LET o == IF ok THEN Resolved("namespace") ELSE Rejected
         last == calls[c].tried[Len(calls[c].tried)]
         call == [calls[c] EXCEPT !.failed = IF ok THEN @ ELSE Append(@, last)]
     IN calls' = [calls EXCEPT ![c] =
          CASE call.pc = "nativeFirst" ->
                 IF ok THEN Finish(call, thenWrap(o, TRUE))
                 ELSE [call EXCEPT !.pc = "primary", !.tried = Append(@, "system-import")]
            [] call.pc = "primary" ->
                 IF ok THEN Finish(call, thenWrap(o, TRUE))
                 ELSE [call EXCEPT !.pc = "fallback", !.tried = Append(@, "fallback-import")]
            [] call.pc = "fallback" -> Finish(call, catchUnavailable(thenWrap(o, TRUE)))
            [] call.pc = "native" -> Finish(call, catchUnavailable(thenWrap(o, TRUE)))]
  /\ UNCHANGED <<cfgVars, shellVars, envVars, reloadVars, toggleVars, availVars, errVars, startVars,
                 pollVars, scriptVars, detectVars, sources>>

Phases == {"bootstrap", "mount", "unmount"}

\* whether the lifecycles of a handle went through wrapModuleLifecycles:
\* createUnavailableApp returns bare functions (lines 444-448)
isWrapped(handle) == handle = "module"

\* the layout engine invokes a lifecycle of the handle a load resolved to;
\* the wrapper of lines 703-706 records the start mark
Invoke(c, lifecycle) ==
  /\ calls[c].pc = "done"
  /\ The(calls[c].outcome).st = "resolved"
  /\ calls[c].phase = None
  /\ calls' = [calls EXCEPT
                 ![c].phase = Some(lifecycle),
                 ![c].running = TRUE,
                 ![c].marks = IF isWrapped(The(calls[c].outcome).v)
                                THEN Append(@, Mark(lifecycle, "start")) ELSE @]
  /\ UNCHANGED <<cfgVars, shellVars, envVars, reloadVars, toggleVars, availVars, errVars, startVars,
                 pollVars, scriptVars, detectVars, sources>>

\* the lifecycle promise settles, fulfilled or rejected; the finally of lines
\* 709-718 records the end mark
LifecycleSettled(c, ok) ==
  /\ calls[c].running
  /\ (~ok => isWrapped(The(calls[c].outcome).v))
  /\ calls' = [calls EXCEPT
                 ![c].running = FALSE,
                 ![c].marks = IF isWrapped(The(calls[c].outcome).v)
                                THEN Append(@, Mark(The(calls[c].phase), "end")) ELSE @]
  /\ UNCHANGED <<cfgVars, shellVars, envVars, reloadVars, toggleVars, availVars, errVars, startVars,
                 pollVars, scriptVars, detectVars, sources>>

Tick ==
  /\ now < T0 + MaxTick
  /\ now' = now + 1
  /\ UNCHANGED <<cfgVars, shellVars, loaderVars, hidden, lsDisabled, ssCache, reloadVars, toggleVars,
                 availVars, errVars, startVars, pollVars>>

(***************************************************************************)
(* The toggle endpoint /api/mfe-toggle (the handler of README.md, lines     *)
(* 277-335).  The primary API server is another service: it is modelled as  *)
(* a store that keeps what it is sent while it is reachable; what it does   *)
(* with its disabledMode when a POST carries none is left open.             *)
(***************************************************************************)
normalizeDisabledList(value) == IF value.t = "arr" THEN StringsOf(value.items) ELSE {}

\* the handler's normalizeDisabledMode (lines 155-172); null is None
normalizeDisabledMode(value) == normalizeDisabledModeConfig(value)

Answer(disabled, disabledMode) == [disabled |-> disabled, disabledMode |-> disabledMode]

\* the three reads of the GET branch and what it answers
handleGet(apiUp, kvUp) ==
  LET apiResult == IF apiUp THEN Some(apiServer) ELSE None
      kvD == IF kvUp THEN Some(IF kvDisabled # None THEN The(kvDisabled) ELSE {}) ELSE None
      kvM == IF kvUp THEN kvMode ELSE None
  IN IF apiResult # None \/ kvD # None \/ kvM # None
       THEN Answer(IF apiResult # None THEN The(apiResult).disabled
                   ELSE IF kvD # None THEN The(kvD) ELSE {},
                   IF apiResult # None /\ The(apiResult).disabledMode # None
                     THEN The(apiResult).disabledMode
                     ELSE kvM)
       ELSE Answer({}, None)

PostBodies ==
  { [disabled |-> d, disabledMode |-> m] :
      d \in {RawList({}), RawList({Catalog, NonString})},
      m \in {RawAbsent, RawModeStr("placeholder")} }

\* POST: both writes are attempted, their results are not looked at
PostToggle(body, apiUp, kvUp) ==
  LET disabled == normalizeDisabledList(body.disabled)
      disabledMode == IF body.disabledMode.t # "absent"
                        THEN normalizeDisabledMode(body.disabledMode) ELSE None
  IN /\ \E kept \in {None, apiServer.disabledMode} :
          apiServer' = IF ~apiUp THEN apiServer
                       ELSE Answer(disabled, IF disabledMode # None THEN disabledMode ELSE kept)
     /\ kvDisabled' = IF kvUp THEN Some(disabled) ELSE kvDisabled
     /\ kvMode' = IF kvUp /\ disabledMode # None THEN disabledMode ELSE kvMode
     /\ posted' = Some(Answer(disabled, disabledMode))
     /\ got' = None
     /\ UNCHANGED pageVars

GetToggle(apiUp, kvUp) ==
  /\ got' = Some(handleGet(apiUp, kvUp))
  /\ UNCHANGED <<apiServer, kvDisabled, kvMode, posted, pageVars>>

(***************************************************************************)
(* Specifications.                                                         *)
(***************************************************************************)
\* the toggle endpoint before any request: nothing stored
InitServer ==
  /\ apiServer = Answer({}, None)
  /\ kvDisabled = None
  /\ kvMode = None
  /\ posted = None
  /\ got = None

\* a device that stores no "mfe-disabled-mode"
NoDeviceMode == lsDisabledMode = RawAbsent /\ deviceMode = RawAbsent

InitPage ==
  /\ now = T0
  /\ hidden = FALSE
  /\ phase = "start"
  /\ reloadScheduled = FALSE
  /\ reloads = 0
  /\ reloadSignals = 0
  /\ runtimeDisabledApps = {}
  /\ mfeServerDisabled = None
  /\ mfeDisabledMode = None
  /\ toggleEvent = None
  /\ availabilityEvent = None
  /\ errorEvent = None
  /\ localDisabledApps = {}
  /\ cached = None
  /\ currentAvailableApps = None
  /\ aliased = FALSE
  /\ failedApps = {}
  /\ registered = {}
  /\ starts = 0
  /\ togglePoll = PollerIdle
  /\ authPoll = PollerIdle
  /\ cacheWritten = FALSE
  /\ lastPass = None
  /\ bootLocal = {}
  /\ snapshot = None
  /\ uiDisabled = {}

InitSources == [u \in DetectUrls |-> <<"code">>]

InitLoader ==
  /\ umdLoads = {}
  /\ scriptPromises = <<>>
  /\ scalls = <<>>
  /\ moduleFormatCache = {}
  /\ sources = InitSources
  /\ dtasks = <<>>
  /\ calls = <<>>

\* the page before bootstrap() runs, for every configuration and stored state
Init ==
  /\ isLocalhost \in BOOLEAN
  /\ location = IF isLocalhost THEN LocalPage ELSE ProdPage
  /\ storageThrows = FALSE
  /\ silent = {}
  /\ ALWAYS_ON_APPS \in {{}, {Catalog}}
  /\ lsDisabled \in LocalRaws
  /\ ssCache \in IF isLocalhost THEN CacheRaws ELSE {[t |-> "none"]}
  /\ NoDeviceMode
  /\ ALWAYS_VISIBLE_APPS = {}
  /\ InitServer
  /\ lost = NoLoss
  /\ tabs = NoTabs
  /\ InitPage
  /\ InitLoader

Next ==
  \/ Bootstrap
  \/ ProdToggleResolved
  \/ RefreshTimer
  \/ AvailabilityResolved
  \/ \E key \in StorageKeys : StorageEvent(key)
  \/ \E type \in BroadcastMessages : BroadcastMessage(type)
  \/ \E appName \in (registered \cap Names) \cup {NoName} : ErrorHandler(appName)
  \/ VisibilityChange

Spec == Init /\ [][Next]_vars


\* the script loader called directly, in either environment
InitScript ==
  /\ isLocalhost \in BOOLEAN
  /\ location = IF isLocalhost THEN LocalPage ELSE ProdPage
  /\ storageThrows = FALSE
  /\ silent = {}
  /\ ALWAYS_ON_APPS = {}
  /\ lsDisabled = [t |-> "none"]
  /\ ssCache = [t |-> "none"]
  /\ NoDeviceMode
  /\ ALWAYS_VISIBLE_APPS = {}
  /\ InitServer
  /\ lost = NoLoss
  /\ tabs = NoTabs
  /\ InitPage
  /\ InitLoader

NextScript ==
  \/ \E url \in ScriptUrls : LoadUmdScriptCall(url)
  \/ \E p \in DOMAIN scriptPromises : ScriptLoaded(p)
  \/ \E p \in DOMAIN scriptPromises : ScriptError(p)
  \/ \E p \in DOMAIN scriptPromises : ScriptRejectionHandled(p)
  \/ Tick

SpecScript == InitScript /\ [][NextScript]_vars


\* the texts served in the detector's specification
DetectSources ==
  { <<>>, <<"code">>,
    <<"sysreg", "code">>,
    <<"comment", "usestrict", "sysreg", "typeofexports", "defineamd", "moduleexports", "import">>,
    <<"typeofexports", "defineamd", "moduleexports">>,
    <<"import", "code">>,
    <<"code", "code", "code", "code", "code", "iexport">>,
    <<"code", "code", "code", "code", "nlexport", "code", "code">>,
    <<"code", "sysreg", "code", "code", "code", "code">>,
    <<"widecomment", "widecomment", "sysreg", "code", "code", "iexport">>,
    <<"sysreg", "umdheader", "import">>,
    <<"umdheader", "code", "code", "import">> }

\* the detector called directly (it runs only in development mode)
InitDetect ==
  /\ isLocalhost = TRUE
  /\ location = LocalPage
  /\ storageThrows = FALSE
  /\ silent = {}
  /\ ALWAYS_ON_APPS = {}
  /\ lsDisabled = [t |-> "none"]
  /\ ssCache = [t |-> "none"]
  /\ NoDeviceMode
  /\ ALWAYS_VISIBLE_APPS = {}
  /\ InitServer
  /\ lost = NoLoss
  /\ tabs = NoTabs
  /\ InitPage
  /\ umdLoads = {}
  /\ scriptPromises = <<>>
  /\ scalls = <<>>
  /\ moduleFormatCache = {}
  /\ \E text \in DetectSources :
       sources = [u \in DetectUrls |->
                    IF u = Url("http://localhost:9001/org-catalog.js") THEN text ELSE <<"import">>]
  /\ dtasks = <<>>
  /\ calls = <<>>

NextDetect ==
  \/ \E url \in DetectUrls : DetectCall(url)
  \/ \E i \in DOMAIN dtasks, kind \in RangeKinds : RangeResponse(i, kind)
  \/ \E i \in DOMAIN dtasks, kind \in FullKinds : FullResponse(i, kind)

SpecDetect == InitDetect /\ [][NextDetect]_vars


\* loadApp called by the layout engine for registered applications, after a
\* reconciliation over a few inputs
LoadSources == { <<"sysreg">>, <<"typeofexports", "defineamd", "moduleexports">>,
                 <<"import">>, <<"code">> }
LoadResponses ==
  { [t |-> "json", body |-> [t |-> "obj", disabled |-> RawList({Catalog}), disabledMode |-> RawAbsent]],
    [t |-> "json", body |-> [t |-> "obj", disabled |-> RawList({ProfileVue, Unlisted}),
                             disabledMode |-> RawAbsent]] }

InitLoad ==
  /\ isLocalhost \in BOOLEAN
  /\ location = IF isLocalhost THEN LocalPage ELSE ProdPage
  /\ storageThrows = FALSE
  /\ silent = {}
  /\ ALWAYS_ON_APPS = {}
  /\ lsDisabled = [t |-> "none"]
  /\ ssCache = [t |-> "none"]
  /\ NoDeviceMode
  /\ ALWAYS_VISIBLE_APPS = {}
  /\ InitServer
  /\ lost = NoLoss
  /\ tabs = NoTabs
  /\ InitPage
  /\ umdLoads = {}
  /\ scriptPromises = <<>>
  /\ scalls = <<>>
  /\ moduleFormatCache = {}
  /\ \E text \in (IF isLocalhost THEN LoadSources ELSE {<<"code">>}) :
       sources = [u \in DetectUrls |->
                    IF u = localUrl(Catalog) THEN text ELSE <<"import">>]
  /\ dtasks = <<>>
  /\ calls = <<>>

NextLoad ==
  \/ Bootstrap
  \/ ProdToggleResolvedOn(LoadResponses)
  \/ AvailabilityResolvedOn({localAppUrls}, LoadResponses)
  \/ \E name \in allApplications : LoadApp(name)
  \/ \E c \in DOMAIN calls, globalDefined \in BOOLEAN : UmdSettled(c, globalDefined)
  \/ \E c \in DOMAIN calls : DetectSettled(c)
  \/ \E c \in DOMAIN calls, globalDefined \in BOOLEAN : SfUmdSettled(c, globalDefined)
  \/ \E c \in DOMAIN calls, ok \in BOOLEAN : ImportSettled(c, ok)
  \/ \E p \in DOMAIN scriptPromises : ScriptLoaded(p)
  \/ \E p \in DOMAIN scriptPromises : ScriptError(p)
  \/ \E p \in DOMAIN scriptPromises : ScriptRejectionHandled(p)
  \/ \E i \in DOMAIN dtasks, kind \in {"neterr", "206", "200"} : RangeResponse(i, kind)
  \/ \E i \in DOMAIN dtasks, kind \in {"neterr", "ok"} : FullResponse(i, kind)
  \* the layout engine reports an error of a registered application (a
  \* loading function that rejected, or a lifecycle that failed)
  \/ \E appName \in registered \cap {ProfileVue} : ErrorHandler(appName)

SpecLoad == InitLoad /\ [][NextLoad]_vars

\* loads and the lifecycles the layout engine invokes on their handles
InitMarks ==
  /\ isLocalhost \in BOOLEAN
  /\ location = IF isLocalhost THEN LocalPage ELSE ProdPage
  /\ storageThrows = FALSE
  /\ silent = {}
  /\ ALWAYS_ON_APPS = {}
  /\ lsDisabled = [t |-> "none"]
  /\ ssCache = [t |-> "none"]
  /\ NoDeviceMode
  /\ ALWAYS_VISIBLE_APPS = {}
  /\ InitServer
  /\ lost = NoLoss
  /\ tabs = NoTabs
  /\ InitPage
  /\ InitLoader

NextMarks ==
  \/ Bootstrap
  \/ ProdToggleResolvedOn(LoadResponses)
  \/ AvailabilityResolvedOn({localAppUrls}, LoadResponses)
  \/ \E name \in {Catalog, Unlisted} : LoadApp(name)
  \/ \E c \in DOMAIN calls : DetectSettled(c)
  \/ \E c \in DOMAIN calls, ok \in BOOLEAN : ImportSettled(c, ok)
  \/ \E i \in DOMAIN dtasks : RangeResponse(i, "neterr")
  \/ \E c \in DOMAIN calls, lifecycle \in Phases : Invoke(c, lifecycle)
  \/ \E c \in DOMAIN calls, ok \in BOOLEAN : LifecycleSettled(c, ok)

SpecMarks == InitMarks /\ [][NextMarks]_vars


\* the page with its pollers running: everything that can call safeReload
WatchResponses ==
  { [t |-> "notok"],
    [t |-> "json", body |-> [t |-> "obj", disabled |-> RawList({Catalog}), disabledMode |-> RawAbsent]] }

InitWatch ==
  /\ isLocalhost \in BOOLEAN
  /\ location = IF isLocalhost THEN LocalPage ELSE ProdPage
  /\ storageThrows = FALSE
  /\ silent = {}
  /\ ALWAYS_ON_APPS = {}
  /\ lsDisabled = RawList({Catalog})
  /\ ssCache \in (IF isLocalhost
                    THEN { [t |-> "none"],
                           CacheEntry(T0 - 1, TRUE, RawList({Catalog}), RawList({}), RawAbsent) }
                    ELSE { [t |-> "none"] })
  /\ NoDeviceMode
  /\ ALWAYS_VISIBLE_APPS = {}
  /\ InitServer
  /\ lost = NoLoss
  /\ tabs = NoTabs
  /\ InitPage
  /\ InitLoader

NextWatch ==
  \/ Bootstrap
  \/ ProdToggleResolvedOn(WatchResponses)
  \/ RefreshTimer
  \/ AvailabilityResolvedOn({{Catalog}}, WatchResponses)
  \/ \E key \in StorageKeys : StorageEvent(key)
  \/ \E type \in BroadcastMessages : BroadcastMessage(type)
  \/ \E appName \in {Catalog, NoName} : ErrorHandler(appName)
  \/ VisibilityChange
  \/ TogglePollTimer
  \/ TogglePollResponse
  \/ AuthPollTimer
  \/ AuthPollResponse

SpecWatch == InitWatch /\ [][NextWatch]_vars


\* the shell UI beside the reconciliation passes, on every kind of page, with
\* a device that may hold its own "mfe-disabled-mode"
DeviceModes ==
  { RawAbsent,
    RawModeObj("hide", RawAppsObj(Catalog :> "placeholder")),
    RawModeStr("placeholder") }

ShellResponses ==
  { [t |-> "neterr"],
    [t |-> "json", body |-> [t |-> "obj", disabled |-> RawList({ProfileVue}),
                             disabledMode |-> RawAbsent]],
    [t |-> "json", body |-> [t |-> "obj", disabled |-> RawList({Catalog}),
                             disabledMode |-> RawModeObj("placeholder",
                                                         RawAppsObj(Catalog :> "hide"))]] }

ShellCaches ==
  { [t |-> "none"],
    CacheEntry(T0 - 1, TRUE, RawList({Catalog}), RawList({ProfileVue}), RawAbsent) }

InitShell ==
  /\ location \in Pages
  /\ isLocalhost = hostIsLocal(location)
  /\ storageThrows = FALSE
  /\ silent = {}
  /\ ALWAYS_ON_APPS = {}
  /\ lsDisabled \in {[t |-> "badjson"], RawList({Catalog})}
  /\ lsDisabledMode \in DeviceModes
  /\ deviceMode = lsDisabledMode
  /\ ssCache \in IF isLocalhost THEN ShellCaches ELSE {[t |-> "none"]}
  /\ ALWAYS_VISIBLE_APPS = {}
  /\ InitServer
  /\ lost = NoLoss
  /\ tabs = NoTabs
  /\ InitPage
  /\ InitLoader

NextShell ==
  \/ Bootstrap
  \/ ProdToggleResolvedOn(ShellResponses)
  \/ RefreshTimer
  \/ AvailabilityResolvedOn({{Catalog}}, ShellResponses)
  \/ \E key \in StorageKeys : StorageEvent(key)
  \/ \E type \in BroadcastMessages : BroadcastMessage(type)
  \/ \E origin \in Origins, data \in MessageData : WindowMessage(origin, data)
  \/ VisibilityUpdate

SpecShell == InitShell /\ [][NextShell]_vars

\* the shell UI hearing channel messages with a payload
InitChannel ==
  /\ isLocalhost = FALSE
  /\ location = ProdPage
  /\ storageThrows = FALSE
  /\ silent = {}
  /\ ALWAYS_ON_APPS = {}
  /\ lsDisabled = RawList({Catalog})
  /\ lsDisabledMode \in DeviceModes
  /\ deviceMode = lsDisabledMode
  /\ ssCache = [t |-> "none"]
  /\ ALWAYS_VISIBLE_APPS = {}
  /\ InitServer
  /\ lost = NoLoss
  /\ tabs = NoTabs
  /\ InitPage
  /\ InitLoader

NextChannel ==
  \/ Bootstrap
  \/ ProdToggleResolvedOn(ShellResponses)
  \/ \E data \in ChannelMessages : BroadcastPayload(data)

SpecChannel == InitChannel /\ [][NextChannel]_vars


\* the shell UI with a pinned application, which the root config exempts too
InitPinned ==
  /\ location \in {ProdPage, LocalPage}
  /\ isLocalhost = hostIsLocal(location)
  /\ storageThrows = FALSE
  /\ silent = {}
  /\ ALWAYS_ON_APPS = {SimpleVanilla}
  /\ ALWAYS_VISIBLE_APPS = {SimpleVanilla}
  /\ lsDisabled \in {RawList({SimpleVanilla}), RawList({Catalog, SimpleVanilla})}
  /\ NoDeviceMode
  /\ ssCache \in IF isLocalhost THEN ShellCaches ELSE {[t |-> "none"]}
  /\ InitServer
  /\ lost = NoLoss
  /\ tabs = NoTabs
  /\ InitPage
  /\ InitLoader

SpecPinned == InitPinned /\ [][NextShell]_vars


\* the readers of toggle state on malformed input
ReadLocals == LocalRaws \cup {RawAbsent, RawNotArray, RawList({})}

ReadResponses ==
  ToggleResponses \cup
  { [t |-> "json", body |-> [t |-> "obj", disabled |-> d, disabledMode |-> m]] :
      d \in {RawNotArray, RawList({Catalog, NonString})},
      m \in {RawModeStr("bogus"), RawModeArr, RawModeStr("placeholder")} }

InitRead ==
  /\ isLocalhost \in BOOLEAN
  /\ location = IF isLocalhost THEN LocalPage ELSE ProdPage
  /\ storageThrows \in BOOLEAN
  /\ silent = {}
  /\ ALWAYS_ON_APPS = {}
  /\ lsDisabled \in ReadLocals
  /\ ssCache = [t |-> "none"]
  /\ NoDeviceMode
  /\ ALWAYS_VISIBLE_APPS = {}
  /\ InitServer
  /\ lost = NoLoss
  /\ tabs = NoTabs
  /\ InitPage
  /\ InitLoader

NextRead ==
  \/ Bootstrap
  \/ ProdToggleResolvedOn(ReadResponses)
  \/ AvailabilityResolvedOn({{Catalog}, {Catalog, ProfileVue}}, ReadResponses)

SpecRead == InitRead /\ [][NextRead]_vars


\* the toggle endpoint, its two stores reachable or not at each request
InitToggleApi ==
  /\ isLocalhost = FALSE
  /\ location = ProdPage
  /\ storageThrows = FALSE
  /\ silent = {}
  /\ ALWAYS_ON_APPS = {}
  /\ lsDisabled = [t |-> "none"]
  /\ ssCache = [t |-> "none"]
  /\ NoDeviceMode
  /\ ALWAYS_VISIBLE_APPS = {}
  /\ InitServer
  /\ lost = NoLoss
  /\ tabs = NoTabs
  /\ InitPage
  /\ InitLoader

NextToggleApi ==
  \/ \E body \in PostBodies, apiUp \in BOOLEAN, kvUp \in BOOLEAN : PostToggle(body, apiUp, kvUp)
  \/ \E apiUp \in BOOLEAN, kvUp \in BOOLEAN : GetToggle(apiUp, kvUp)

SpecToggleApi == InitToggleApi /\ [][NextToggleApi]_vars


\* bootstrap() beside endpoints that may never answer.  The fetch of
\* getServerToggleState() carries no abort signal (line 167), so its promise
\* settles only when the toggle service answers; a probe is aborted after
\* 700 ms (lines 231-232) and then counts as not available.
Endpoints == {"toggle", "probe"}

LiveResponses ==
  { [t |-> "neterr"],
    [t |-> "json", body |-> [t |-> "obj", disabled |-> RawList({Catalog}),
                             disabledMode |-> RawAbsent]] }

\* the .then of line 988 runs once the toggle service has answered
ToggleAnswered ==
  /\ "toggle" \notin silent
  /\ ProdToggleResolvedOn(LiveResponses)

\* the .then of line 1043 runs once every probe and the toggle fetch settled
ProbesSettled ==
  /\ "toggle" \notin silent
  /\ AvailabilityResolvedOn(IF "probe" \in silent THEN {{}} ELSE {{}, {Catalog}},
                            LiveResponses)

InitLive ==
  /\ isLocalhost \in BOOLEAN
  /\ location = IF isLocalhost THEN LocalPage ELSE ProdPage
  /\ storageThrows = FALSE
  /\ silent \in SUBSET Endpoints
  /\ ALWAYS_ON_APPS = {}
  /\ lsDisabled \in {RawList({}), RawList({Catalog})}
  /\ ssCache \in IF isLocalhost THEN ShellCaches ELSE {[t |-> "none"]}
  /\ NoDeviceMode
  /\ ALWAYS_VISIBLE_APPS = {}
  /\ InitServer
  /\ lost = NoLoss
  /\ tabs = NoTabs
  /\ InitPage
  /\ InitLoader

NextLive ==
  \/ Bootstrap
  \/ ToggleAnswered
  \/ ProbesSettled
  \/ RefreshTimer
  \/ VisibilityChange

\* bootstrap() is called when the module is evaluated (line 1101), a promise
\* whose requests were answered runs its callbacks, and a timer that was set
\* fires; nothing makes the page visible or hidden
FairLive ==
  /\ WF_vars(Bootstrap)
  /\ WF_vars(ToggleAnswered)
  /\ WF_vars(ProbesSettled)
  /\ WF_vars(RefreshTimer)

SpecLive == InitLive /\ [][NextLive]_vars /\ FairLive

\* the two pollers alone, with every kind of answer to the toggle poll
PollInputs == PollResponses \cup { [t |-> "json", body |-> [t |-> "str"]] }

InitPoll ==
  /\ isLocalhost \in BOOLEAN
  /\ location = IF isLocalhost THEN LocalPage ELSE ProdPage
  /\ storageThrows = FALSE
  /\ silent = {}
  /\ ALWAYS_ON_APPS = {}
  /\ lsDisabled = RawList({})
  /\ ssCache = [t |-> "none"]
  /\ NoDeviceMode
  /\ ALWAYS_VISIBLE_APPS = {}
  /\ InitServer
  /\ lost = NoLoss
  /\ tabs = NoTabs
  /\ InitPage
  /\ InitLoader

NextPoll ==
  \/ Bootstrap
  \/ ProdToggleResolvedOn(LiveResponses)
  \/ AvailabilityResolvedOn({{Catalog}}, LiveResponses)
  \/ VisibilityChange
  \/ TogglePollTimer
  \/ TogglePollResponseOn(PollInputs)
  \/ AuthPollTimer
  \/ AuthPollResponse

SpecPoll == InitPoll /\ [][NextPoll]_vars

\* the remote toggle state changing behind a visible page whose requests
\* are all answered, each with the payload of the moment; names are added
\* to the remote list and never taken back, so that no change undoes another
RemoteLists == {{}, {Catalog}, {Catalog, ProfileVue}}

remoteResponse ==
  [t |-> "json", body |-> [t |-> "obj", disabled |-> RawList(apiServer.disabled),
                           disabledMode |-> RawAbsent]]

RemoteChange ==
  /\ \E names \in RemoteLists :
       /\ apiServer.disabled \subseteq names
       /\ apiServer.disabled # names
       /\ apiServer' = [apiServer EXCEPT !.disabled = names]
  /\ UNCHANGED <<kvDisabled, kvMode, posted, got, pageVars>>

StartupFetchAnswered == ProdToggleResolvedOn({remoteResponse})
StartupProbeAnswered == AvailabilityResolvedOn({{Catalog}}, {remoteResponse})
TogglePollAnswered == TogglePollResponseOn({remoteResponse})

InitRemote ==
  /\ isLocalhost \in BOOLEAN
  /\ location = IF isLocalhost THEN LocalPage ELSE ProdPage
  /\ storageThrows = FALSE
  /\ silent = {}
  /\ ALWAYS_ON_APPS = {}
  /\ lsDisabled \in {RawList({}), RawList({Catalog})}
  /\ ssCache = [t |-> "none"]
  /\ NoDeviceMode
  /\ ALWAYS_VISIBLE_APPS = {}
  /\ InitServer
  /\ lost = NoLoss
  /\ tabs = NoTabs
  /\ InitPage
  /\ InitLoader

NextRemote ==
  \/ Bootstrap
  \/ StartupFetchAnswered
  \/ StartupProbeAnswered
  \/ TogglePollTimer
  \/ TogglePollAnswered
  \/ RemoteChange

\* every request is answered and every timer that was set fires; nothing
\* makes the remote state change
FairRemote ==
  /\ WF_vars(Bootstrap)
  /\ WF_vars(StartupFetchAnswered)
  /\ WF_vars(StartupProbeAnswered)
  /\ WF_vars(TogglePollTimer)
  /\ WF_vars(TogglePollAnswered)

SpecRemote == InitRemote /\ [][NextRemote]_vars /\ FairRemote

(***************************************************************************)
(* Two tabs on one origin.  localStorage (lsDisabled, lsDisabledMode) and   *)
(* the clock are shared; a tab is [pc, cache, cached, event, loadedAt,      *)
(* reloads]: the position of its bootstrap(), its sessionStorage entry, its *)
(* bootstrap's cached, a storage event waiting for its listener, the time   *)
(* its re-probe timer was set, and (history) the number of times it was     *)
(* reloaded.  The remote toggle state and the device-local list do not      *)
(* change; loading a document takes LoadMs.                                 *)
(***************************************************************************)
TabIds == {1, 2}
LoadMs == 10000
LastLoad == T0 + AVAILABILITY_CACHE_TTL + 2 * LoadMs
afterLoad(time) == Min(time + LoadMs, LastLoad)

tabResponse ==
  [t |-> "json", body |-> [t |-> "obj", disabled |-> RawList(apiServer.disabled),
                           disabledMode |-> StoredMode(apiServer.disabledMode)]]

\* setItem in tab i: a storage event goes to every other tab whose document
\* has its listener (lines 966-970), when the stored value changed
heardBy(i, changed) ==
  [j \in TabIds |-> IF j # i /\ changed /\ tabs[j].pc # "start"
                      THEN [tabs[j] EXCEPT !.event = TRUE]
                      ELSE tabs[j]]

\* emitDisabledApps in tab i, with the shell UI's "mfe-toggle" listener; next
\* is the tab afterwards
TabEmit(i, serverDisabledApps, serverDisabledMode, next) ==
  LET e == emitDisabledApps(serverDisabledApps, getDisabledApps(lsDisabled), serverDisabledMode)
      heard == onToggleEvent(e.detail, e.stored, e.mfeDisabledMode)
      changed == e.stored # lsDisabledMode \/ heard.stored # e.stored
  IN /\ lsDisabledMode' = heard.stored
     /\ tabs' = [heardBy(i, changed) EXCEPT ![i] = next]

tabFrame ==
  <<isLocalhost, location, storageThrows, silent, ALWAYS_ON_APPS, ALWAYS_VISIBLE_APPS,
    serverVars, lost, hidden, lsDisabled, ssCache, reloadVars, runtimeDisabledApps,
    mfeServerDisabled, mfeDisabledMode, toggleEvent, availVars, errVars, startVars, pollVars,
    loaderVars, shellVars>>

\* bootstrap() of the document of tab i, up to its first asynchronous boundary
TabBootstrap(i) ==
  /\ tabs[i].pc = "start"
  /\ IF ~isLocalhost
       THEN /\ tabs' = [tabs EXCEPT ![i].pc = "prodFetch"]
            /\ UNCHANGED lsDisabledMode
       ELSE LET c == readAvailabilityCache(tabs[i].cache, now)
            IN IF c = None
                 THEN /\ tabs' = [tabs EXCEPT ![i].pc = "probing", ![i].cached = None]
                      /\ UNCHANGED lsDisabledMode
                 ELSE TabEmit(i, The(c).disabled, The(c).disabledMode,
                              [tabs[i] EXCEPT !.pc = "hydrated", !.cached = c, !.loadedAt = now])
  /\ UNCHANGED <<now, tabFrame>>

\* the .then of the startup fetch (988) or of runAvailabilityCheck (1043) in
\* tab i; a divergence from the entry the tab started from reloads it
TabResolved(i) ==
  /\ tabs[i].pc \in {"prodFetch", "probing", "reprobing"}
  /\ LET serverToggle == getServerToggleState(tabResponse)
         availableApps == {Catalog}
         diverged == /\ tabs[i].cached # None
                     /\ divergence(The(tabs[i].cached), availableApps, serverToggle.disabled,
                                   serverToggle.disabledMode)
         cache == IF isLocalhost
                    THEN writeAvailabilityCache(availableApps, serverToggle.disabled,
                                                serverToggle.disabledMode, now)
                    ELSE tabs[i].cache
     IN /\ TabEmit(i, serverToggle.disabled, serverToggle.disabledMode,
                   [tabs[i] EXCEPT !.cache = cache,
                                   !.pc = IF diverged THEN "start" ELSE "settled",
                                   !.reloads = IF diverged THEN @ + 1 ELSE @,
                                   !.event = IF diverged THEN FALSE ELSE @])
        /\ now' = IF diverged THEN afterLoad(now) ELSE now
  /\ UNCHANGED tabFrame

\* the storage listener of tab i runs safeReload and the document is loaded
\* again
StorageEventHeard(i) ==
  /\ tabs[i].event
  /\ tabs[i].pc # "start"
  /\ tabs' = [tabs EXCEPT ![i].event = FALSE, ![i].pc = "start", ![i].reloads = @ + 1]
  /\ now' = afterLoad(now)
  /\ UNCHANGED <<lsDisabledMode, tabFrame>>

\* the re-probe timer of a tab that started from its cache (1087-1095)
TabRefreshTimer(i) ==
  /\ tabs[i].pc = "hydrated"
  /\ now - tabs[i].loadedAt >= Max(AVAILABILITY_CACHE_TTL, 15000)
  /\ tabs' = [tabs EXCEPT ![i].pc = "reprobing"]
  /\ UNCHANGED <<now, lsDisabledMode, tabFrame>>

TabTick ==
  /\ now < LastLoad
  /\ now' = afterLoad(now)
  /\ UNCHANGED <<tabs, lsDisabledMode, tabFrame>>

HideMode == StoredMode(Some(Mode("hide", EmptyApps)))

TabCaches ==
  { [t |-> "none"],
    CacheEntry(T0 - 1, TRUE, RawList({Catalog}), RawList({}), HideMode),
    CacheEntry(T0 - 1, TRUE, RawList({Catalog}), RawList({}), PlaceholderMode) }

NewTab(cache) ==
  [pc |-> "start", cache |-> cache, cached |-> None, event |-> FALSE, loadedAt |-> 0,
   reloads |-> 0]

InitTabs ==
  /\ isLocalhost \in BOOLEAN
  /\ location = IF isLocalhost THEN LocalPage ELSE ProdPage
  /\ storageThrows = FALSE
  /\ silent = {}
  /\ ALWAYS_ON_APPS = {}
  /\ lsDisabled = RawList({})
  /\ ssCache = [t |-> "none"]
  /\ lsDisabledMode \in {RawAbsent, HideMode}
  /\ deviceMode = lsDisabledMode
  /\ ALWAYS_VISIBLE_APPS = {}
  /\ apiServer \in {Answer({}, None), Answer({}, Some(Mode("placeholder", EmptyApps)))}
  /\ kvDisabled = None
  /\ kvMode = None
  /\ posted = None
  /\ got = None
  /\ lost = NoLoss
  /\ tabs \in [TabIds -> {NewTab(c) : c \in IF isLocalhost THEN TabCaches ELSE {[t |-> "none"]}}]
  /\ InitPage
  /\ InitLoader

NextTabs ==
  \/ \E i \in TabIds : TabBootstrap(i)
  \/ \E i \in TabIds : TabResolved(i)
  \/ \E i \in TabIds : StorageEventHeard(i)
  \/ \E i \in TabIds : TabRefreshTimer(i)
  \/ TabTick

SpecTabs == InitTabs /\ [][NextTabs]_vars

\* registration alone: every environment, cache entry and probe result
InitRegister ==
  /\ isLocalhost \in BOOLEAN
  /\ location = IF isLocalhost THEN LocalPage ELSE ProdPage
  /\ storageThrows = FALSE
  /\ silent = {}
  /\ ALWAYS_ON_APPS \in {{}, {Catalog}}
  /\ lsDisabled \in {RawList({}), RawList({Catalog})}
  /\ ssCache \in IF isLocalhost THEN CacheRaws ELSE {[t |-> "none"]}
  /\ NoDeviceMode
  /\ ALWAYS_VISIBLE_APPS = {}
  /\ InitServer
  /\ lost = NoLoss
  /\ tabs = NoTabs
  /\ InitPage
  /\ InitLoader

NextRegister ==
  \/ Bootstrap
  \/ ProdToggleResolvedOn(LiveResponses)
  \/ RefreshTimer
  \/ AvailabilityResolvedOn({{}, {Catalog}, {ProfileVue, SimpleVanilla}}, LiveResponses)
  \/ \E appName \in registered \cap Names : ErrorHandler(appName)
  \/ VisibilityChange

SpecRegister == InitRegister /\ [][NextRegister]_vars


(***************************************************************************)
(* Properties.                                                             *)
(***************************************************************************)

\* C1: a name of the always-on set is never in the runtime-disabled set, in
\* the disabled list of the published mfe-toggle event, in
\* window.__mfeServerDisabled, or in the disabled list this page wrote to the
\* availability cache, whatever the remote, device-local and cached inputs.
AlwaysOnNeverDisabled ==
  \A name \in ALWAYS_ON_APPS :
    /\ name \notin runtimeDisabledApps
    /\ toggleEvent # None => name \notin The(toggleEvent).disabled
    /\ mfeServerDisabled # None => name \notin The(mfeServerDisabled)
    /\ cacheWritten => name \notin RawNames(ssCache.disabled)

\* an always-on name that both the remote and the device-local list disable,
\* after the probe has published and written the cache
AlwaysOnNamedBySources ==
  /\ ALWAYS_ON_APPS = {Catalog}
  /\ lastPass # None
  /\ The(lastPass).path = "probe"
  /\ Catalog \in The(lastPass).remote
  /\ Catalog \in The(lastPass).local
  /\ cacheWritten
  /\ toggleEvent # None

\* C2: after a reconciliation pass on any of the three paths the
\* runtime-disabled set is the union of the remote (or cached) names and the
\* device-local names the pass read, minus the always-on set.
DisabledIsUnionOfSources ==
  lastPass # None =>
    runtimeDisabledApps =
      (The(lastPass).remote \cup The(lastPass).local) \ ALWAYS_ON_APPS

\* a re-probe after cache hydration in which each source disables a name the
\* other does not
UnionOfTwoSources ==
  /\ lastPass # None
  /\ The(lastPass).path = "probe"
  /\ cached # None
  /\ The(lastPass).remote = {ProfileVue}
  /\ The(lastPass).local = {Catalog}
  /\ runtimeDisabledApps = {Catalog, ProfileVue}

\* C3: a loadApp call for a name that is runtime-disabled when the call is
\* made resolves to the no-op handle and starts no detection, no script load
\* and no import.
DisabledLoadsNothing ==
  \A c \in DOMAIN calls :
    calls[c].disabledAtCall =>
      /\ calls[c].pc = "done"
      /\ calls[c].outcome = Some(Resolved(createUnavailableApp))
      /\ calls[c].tried = <<>>
      /\ calls[c].p = 0
      /\ calls[c].d = 0

\* a disabled application of the script registry was asked for, with nothing
\* inserted for it
DisabledUmdAppCalled ==
  \E c \in DOMAIN calls :
    /\ calls[c].disabledAtCall
    /\ calls[c].name = ProfileVue
    /\ \A i \in DOMAIN scalls : scalls[i].key.url # umdUrl(ProfileVue)

\* the steps of a call that load code (detection only chooses among them)
strategies(call) == SelectSeq(call.tried, LAMBDA step : step # "detect")

\* C4: the promise loadApp returns never rejects, and when every strategy
\* the call tried has failed it resolves to the no-op handle.
LoadAppNeverRejects ==
  \A c \in DOMAIN calls :
    calls[c].pc = "done" =>
      /\ The(calls[c].outcome).st = "resolved"
      /\ (strategies(calls[c]) # <<>> /\ calls[c].failed = strategies(calls[c]))
           => calls[c].outcome = Some(Resolved(createUnavailableApp))

\* a format-adaptive load whose native import, legacy import and fallback
\* import all failed, beside a sibling that loaded
AllStrategiesFailed ==
  \E c, other \in DOMAIN calls :
    /\ calls[c].pc = "done"
    /\ calls[c].tried = <<"detect", "native-import", "system-import", "fallback-import">>
    /\ Len(calls[c].failed) = 3
    /\ c < other
    /\ calls[other].outcome = Some(Resolved("module"))

\* the tracked promises of a key that had not settled when a call was made
pendingFor(call) ==
  {q \in DOMAIN call.seen :
     call.seen[q].key = call.key /\ call.seen[q].st \in {"loading", "errored"}}

\* C5: for every cache key at most one load is outstanding, and a call made
\* while a load of its key is outstanding inserts no script element and gets
\* the promise of that load.
OneLoadPerKey ==
  /\ \A p, q \in DOMAIN scriptPromises :
       (/\ scriptPromises[p].key = scriptPromises[q].key
        /\ scriptPromises[p].st \in {"loading", "errored"}
        /\ scriptPromises[q].st \in {"loading", "errored"}) => p = q
  /\ \A i \in DOMAIN scalls :
       pendingFor(scalls[i]) # {} =>
         /\ ~scalls[i].inserted
         /\ scalls[i].p \in pendingFor(scalls[i])

\* three concurrent calls for one key: one insertion, one promise, which
\* rejected for all of them
ConcurrentCallersShareRejection ==
  /\ Len(scalls) = 3
  /\ scalls[1].inserted /\ ~scalls[2].inserted /\ ~scalls[3].inserted
  /\ scalls[1].p = scalls[2].p /\ scalls[2].p = scalls[3].p
  /\ pendingFor(scalls[3]) # {}
  /\ scriptPromises[scalls[1].p].st = "rejected"

\* the tracked promises of a key in a given state when a call was made
seenIn(call, states) ==
  {q \in DOMAIN call.seen : call.seen[q].key = call.key /\ call.seen[q].st \in states}

\* C6: a rejected load leaves no cache entry and the next call for its key
\* inserts a new script element; a resolved load keeps its entry, and later
\* calls for its key get it without inserting.
RejectedEvictedResolvedKept ==
  /\ \A e \in umdLoads : scriptPromises[e.p].st # "rejected"
  /\ \A p \in DOMAIN scriptPromises :
       scriptPromises[p].st = "resolved" => [key |-> scriptPromises[p].key, p |-> p] \in umdLoads
  /\ \A i \in DOMAIN scalls :
       /\ seenIn(scalls[i], {"resolved"}) # {} =>
            ~scalls[i].inserted /\ scalls[i].p \in seenIn(scalls[i], {"resolved"})
       /\ seenIn(scalls[i], {"loading", "errored", "resolved"}) = {} => scalls[i].inserted

\* a retry: a call for a key whose earlier load rejected, with a new element
RetryAfterRejection ==
  \E i, j \in DOMAIN scalls :
    /\ i < j
    /\ scalls[i].key = scalls[j].key
    /\ scalls[i].p \in seenIn(scalls[j], {"rejected"})
    /\ scalls[j].inserted
    /\ scalls[j].p # scalls[i].p

\* no detection of the URL of call j, up to j, was started while another was
\* in flight
sequentialUpTo(j) ==
  \A k \in 1..j : dtasks[k].url = dtasks[j].url => ~dtasks[k].overlap

\* C7: a second detection of a URL, made after the first has settled,
\* returns what the first returned and issues no request, whatever the
\* first one's outcome was.
SecondDetectionIsCached ==
  \A i, j \in DOMAIN dtasks :
    (i < j /\ dtasks[i].url = dtasks[j].url /\ sequentialUpTo(j)) =>
      /\ dtasks[j].reqs = 0
      /\ dtasks[j].outcome = dtasks[i].outcome

\* C8: a detection never rejects, and it resolves to unknown whenever the
\* range request or the full-body request failed, timed out or was answered
\* with a status that is neither 2xx nor 206.
DetectNeverRejects ==
  \A i \in DOMAIN dtasks :
    dtasks[i].pc = "done" =>
      /\ The(dtasks[i].outcome).st = "resolved"
      /\ (\/ dtasks[i].range \in {"neterr", "notok", "bodyerr"}
          \/ dtasks[i].full \in {"neterr", "notok", "bodyerr"})
           => dtasks[i].outcome = Some(Resolved("unknown"))

\* a detection whose full-body request failed after a 206 answer
FullBodyRequestFailed ==
  \E i \in DOMAIN dtasks :
    /\ dtasks[i].pc = "done"
    /\ dtasks[i].range = "206"
    /\ dtasks[i].full = "neterr"

\* what the claim reads off a detection: the class of the 206 body and the
\* export{ of the tail
prefixClass(task) == analyzeSource(rangePrefix(sources[task.url]), <<>>, None)
tailHasExport(task) ==
  Tokens(sliceTail(sources[task.url])) \cap {"iexport", "nlexport"} # {}
headHasMarker(task) ==
  \/ hasSystemRegister(sliceHead(sources[task.url]))
  \/ hasUmdWrapper(sliceHead(sources[task.url]))

\* the request counts of an uncached detection
requestCounts(task) ==
  /\ task.reqs <= 2
  /\ (task.range = "206" /\ prefixClass(task) \in {"system", "umd"}) => task.reqs = 1
  /\ task.range = "200" => task.reqs = 1
  /\ (task.range = "206" /\ prefixClass(task) = "unknown") => task.reqs = 2

\* C9 as stated: one request on a 206 answer whose body classifies or on a
\* 200 answer, two requests when the 206 body has no marker, never more than
\* two, and in the two-request case a full body whose tail has export{ is
\* native.
TailExportIsNative ==
  \A i \in DOMAIN dtasks :
    /\ requestCounts(dtasks[i])
    /\ (/\ dtasks[i].range = "206"
        /\ prefixClass(dtasks[i]) = "unknown"
        /\ dtasks[i].full = "ok"
        /\ tailHasExport(dtasks[i]))
         => dtasks[i].outcome = Some(Resolved("esm"))

\* C9: the same request counts; in the two-request case a full body whose
\* tail has export{ is native when its first 8192 characters carry neither
\* the legacy-registration preamble nor the three wrapper tokens.
TailExportIsNativeWithoutHeadMarker ==
  \A i \in DOMAIN dtasks :
    /\ requestCounts(dtasks[i])
    /\ (/\ dtasks[i].range = "206"
        /\ prefixClass(dtasks[i]) = "unknown"
        /\ dtasks[i].full = "ok"
        /\ tailHasExport(dtasks[i])
        /\ ~headHasMarker(dtasks[i]))
         => dtasks[i].outcome = Some(Resolved("esm"))

\* two requests, the second one finding export{ only in the tail
NativeFoundInTail ==
  \E i \in DOMAIN dtasks :
    /\ dtasks[i].range = "206"
    /\ prefixClass(dtasks[i]) = "unknown"
    /\ dtasks[i].full = "ok"
    /\ tailHasExport(dtasks[i])
    /\ ~headHasMarker(dtasks[i])
    /\ "import" \notin Tokens(sources[dtasks[i].url])
    /\ "nlexport" \notin Tokens(sources[dtasks[i].url])
    /\ dtasks[i].reqs = 2
    /\ dtasks[i].outcome = Some(Resolved("esm"))

\* C10: window.location.reload() is called at most once in the life of a
\* page, whatever signals arrive and however they interleave.
ReloadAtMostOnce == reloads <= 1

\* a second reload signal arrived after the reload was issued
SecondSignalIgnored ==
  /\ reloads = 1
  /\ reloadSignals >= 2


\* what the last probe found, as it wrote it to the availability cache
probed ==
  [available |-> RawNames(ssCache.available),
   disabled |-> RawNames(ssCache.disabled),
   disabledMode |-> normalizeDisabledModeConfig(ssCache.disabledMode)]

\* C11: in the cache-hydrated path, once the re-probe has yielded a result
\* that differs from the cached snapshot in the available set, the remote
\* disabled set or the disabledMode, exactly one reload has been issued.
DivergenceReloads ==
  (snapshot # None /\ cacheWritten /\ probed # The(snapshot)) => reloads = 1

\* C12: a re-probe whose result equals the cached snapshot, with the
\* device-local list as it was at hydration, leaves the disabled set and the
\* disabledMode as they were and calls for no reload, whatever events came
\* between the hydration and the re-probe.
UnchangedInputsNoReload ==
  [][(/\ phase = "probing"
      /\ phase' = "settled"
      /\ snapshot # None
      /\ probed' = The(snapshot)
      /\ The(lastPass).local = RawNames(lsDisabled))
       => (/\ runtimeDisabledApps' = runtimeDisabledApps
           /\ mfeDisabledMode' = mfeDisabledMode
           /\ reloadSignals' = reloadSignals
           /\ reloads' = reloads)]_vars


\* a step in which the listeners of lines 966-985 receive a change made elsewhere
remoteChangeReceived ==
  \/ \E key \in {"mfe-disabled", "mfe-disabled-mode"} : StorageEvent(key)
  \/ \E type \in {"mfe-toggle", "mfe-disabled-mode"} : BroadcastMessage(type)

\* a step in which this page itself stores "mfe-disabled-mode" (line 199)
ownStorageWrite == phase' # phase /\ lsDisabledMode' # lsDisabledMode

\* C13: a page that receives a broadcast message of type mfe-toggle or
\* mfe-disabled-mode, or a storage event for mfe-disabled or mfe-disabled-mode,
\* reloads; the page that made a storage write does not reload because of that
\* write: when it calls the reload in the same step, it has a hydrated cache
\* that differs from what it probed.
RemoteChangeReloadsReceiverOnly ==
  [][/\ remoteChangeReceived => (reloadScheduled' /\ reloads' = 1)
     /\ (lsDisabled' # lsDisabled) => (reloadScheduled' /\ reloads' = 1)
     /\ ownStorageWrite =>
          \/ reloadSignals' = reloadSignals /\ reloads' = reloads
          \/ cached # None /\ probed' # The(cached)]_vars

\* the page stored the remote mode itself, then another tab emptied the
\* device-local list: one reload, asked for once
ReceiverReloadedAfterOwnWrite ==
  /\ phase = "settled"
  /\ cached = None
  /\ deviceMode = RawAbsent
  /\ lsDisabledMode \notin OtherTabModes
  /\ lsDisabled = RawList({})
  /\ reloads = 1
  /\ reloadSignals = 1


\* the origins the specification lets through: the page's own origin, and on
\* a loopback page every http(s) origin of a loopback host
fromOwnOrLoopback(origin) ==
  \/ origin = location
  \/ /\ location.host \in {"localhost", "127.0.0.1"}
     /\ origin.scheme \in {"http", "https"}
     /\ origin.host \in {"localhost", "127.0.0.1"}

\* C14: a window message from an origin that is neither the page's own origin
\* nor, on a loopback page, an http(s) loopback origin changes nothing; only a
\* message from such an origin can change the disabled list the shell UI renders.
UntrustedMessageChangesNothing ==
  [][\A origin \in Origins, data \in MessageData :
       (WindowMessage(origin, data) /\ ~fromOwnOrLoopback(origin)) => UNCHANGED vars]_vars

\* on a page served from 127.0.0.1, a toggle message was applied by the shell UI
LoopbackMessageApplied ==
  /\ location = LoopbackPage
  /\ uiDisabled = {SimpleVanilla}


\* an entry the specification treats as absent: older than the TTL, or with
\* a timestamp that is not a number
expired(raw, time) ==
  raw.t = "obj" /\ (~raw.tsNumber \/ time - raw.timestamp > 30000)

\* C15: when the stored availability entry is older than the 30 second TTL or
\* its timestamp is not a number, bootstrap() reads no cache, publishes and
\* registers nothing from it, and goes on to the full probe.
ExpiredCacheIsAbsent ==
  [][(phase = "start" /\ phase' # "start" /\ isLocalhost /\ expired(ssCache, now))
       => (/\ phase' = "probing"
           /\ cached' = None
           /\ toggleEvent' = None
           /\ availabilityEvent' = None
           /\ registered' = {}
           /\ starts' = 0)]_vars

\* bootstrap() has passed over an entry one millisecond older than the TTL
\* and waits for the probe
ExpiredEntryPassedOver ==
  /\ phase = "probing"
  /\ cached = None
  /\ ssCache.t = "obj"
  /\ ssCache.tsNumber
  /\ now - ssCache.timestamp = AVAILABILITY_CACHE_TTL + 1


\* C16: applications are registered and started only once a disabled state
\* has been published (runtime-disabled set assigned from it, mfe-toggle
\* dispatched); unless the page hydrated from the availability cache, the
\* published state is the result of a completed reconciliation pass.
RegisteredOnlyAfterPublish ==
  (registered # {} \/ starts > 0) =>
     /\ toggleEvent # None
     /\ mfeServerDisabled # None
     /\ runtimeDisabledApps = The(toggleEvent).disabled
     /\ lastPass # None
     /\ snapshot = None => The(lastPass).path \in {"production", "probe"}
     /\ phase = "hydrated" => (snapshot # None /\ The(lastPass).path = "cache")

\* development without a usable cache: started after the probe pass published
StartedAfterProbePass ==
  /\ isLocalhost
  /\ snapshot = None
  /\ starts = 1
  /\ registered # {}
  /\ The(lastPass).path = "probe"
  /\ The(toggleEvent).disabled # {}


\* C17: once a state has been published and no reload is under way, the
\* disabled list the shell UI rendered last and the runtime-disabled set the
\* Application Loader consults are the same set.
UiAndLoaderAgree ==
  (toggleEvent # None /\ ~reloadScheduled) => uiDisabled = runtimeDisabledApps


\* the mode configuration the specification asks for: the value the device
\* stored wins for the default and for each application, and a key that only
\* the remote state defines keeps the remote value
mergedMode ==
  LET local == uiNormalizeDisabledModeConfig(deviceMode)
      remote == uiNormalizeDisabledModeConfig(StoredMode(mfeDisabledMode))
  IN [default |-> IF local.default # None THEN local.default ELSE remote.default,
      apps |-> spread(remote.apps, local.apps)]

\* C18: after any number of reconciliation passes, the mode the shell UI uses
\* to render is the device-local value wherever the device defines one, and
\* the remote value for the keys only the remote state defines.
DeviceLocalModeWins ==
  toggleEvent # None =>
    /\ readDisabledModeConfig(lsDisabledMode, mfeDisabledMode) = mergedMode
    /\ \A app \in Names :
         resolveDisabledMode(app) =
           IF app \in DOMAIN mergedMode.apps THEN mergedMode.apps[app]
           ELSE IF mergedMode.default # None THEN The(mergedMode.default)
           ELSE "hide"


\* a remote answer that is no object: the request failed, the status was not
\* 2xx, or the body was not JSON or not an object
malformedResponse(resp) == resp.t # "json" \/ resp.body.t # "obj"

\* a disabledMode that is neither "hide", "placeholder" nor an object
invalidMode(m) == m.t # "obj" /\ ~(m.t = "str" /\ m.s \in DisabledModes)

\* a reconciliation pass that received the answer resp
passOn(resp) ==
  \/ ProdToggleResolvedOn({resp})
  \/ \E probe \in {{Catalog}, {Catalog, ProfileVue}} : AvailabilityResolvedOn({probe}, {resp})

StorageFailureNeverAbortsStartup ==
  storageThrows => phase # "aborted"


\* C21: in every execution of bootstrap(), whatever the toggle service and the
\* probed URLs do (answer, fail or never answer), the applications are
\* eventually registered and the layout engine is started.
EventuallyStarted == <>(starts > 0)


\* C22: whenever loading an application has failed (script load,
\* format-adaptive import or native import rejected) and loadApp has put the
\* no-op handle in its place, an mfe-error event carrying the application's
\* name has been published.
LoadFailurePublished ==
  \A c \in DOMAIN calls :
    (/\ calls[c].pc = "done"
     /\ calls[c].failed # <<>>
     /\ calls[c].outcome = Some(Resolved(createUnavailableApp)))
      => calls[c].name \in failedApps


\* C23: after a POST with disabled list D (and, when given, disabledMode M) has
\* been answered, a GET with no POST in between answers the normalized D (and
\* M), whether or not the primary API server and the key-value backup were
\* reachable at the write and at the read.
GetReturnsLastPost ==
  (posted # None /\ got # None) =>
     /\ The(got).disabled = The(posted).disabled
     /\ The(posted).disabledMode # None => The(got).disabledMode = The(posted).disabledMode


OneRequestInFlight ==
  [][/\ togglePoll'.requests <= 1
     /\ authPoll'.requests <= 1
     /\ (togglePoll.inFlight /\ (TogglePollTimer \/ (VisibilityChange /\ hidden)))
          => (togglePoll'.requests = togglePoll.requests /\ togglePoll'.timer = intervalMs)
     /\ (authPoll.inFlight /\ (AuthPollTimer \/ (VisibilityChange /\ hidden)))
          => (authPoll'.requests = authPoll.requests /\ authPoll'.timer = authIntervalMs)]_vars

\* both pollers were ticked while their request was outstanding
TicksSkippedInFlight ==
  /\ togglePoll.skipped
  /\ togglePoll.requests = 1
  /\ togglePoll.timer = intervalMs
  /\ authPoll.skipped
  /\ authPoll.requests = 1


\* C26: a started poller always has a request in flight or a timer pending,
\* and every settled request, whatever its outcome (success, failure,
\* malformed body, timeout), arms the timer of the next tick.
PollerNeverStops ==
  [][/\ togglePoll'.started => (togglePoll'.inFlight \/ togglePoll'.timer # 0)
     /\ authPoll'.started => (authPoll'.inFlight \/ authPoll'.timer # 0)
     /\ (\E resp \in PollInputs : TogglePollResponseOn({resp}))
          => (~togglePoll'.inFlight /\ togglePoll'.timer = intervalMs)
     /\ AuthPollResponse
          => (~authPoll'.inFlight /\ authPoll'.timer = authIntervalMs)]_vars

\* the toggle poll was re-scheduled after a request that yielded no payload,
\* the build poll after one that yielded a build id
RescheduledAfterSettle ==
  /\ togglePoll.started /\ ~togglePoll.inFlight
  /\ togglePoll.last = None /\ togglePoll.timer = intervalMs
  /\ authPoll.started /\ ~authPoll.inFlight
  /\ authPoll.last # None /\ authPoll.timer = authIntervalMs


\* C27: a settled toggle poll schedules a reload when it carries a JSON
\* object that differs from the previously observed one, and causes no
\* reload when it is the first observed payload, equals the previous one,
\* failed, timed out or carries something that is not a JSON object.
ReloadIffPayloadChanged ==
  [][\A resp \in PollInputs :
       TogglePollResponseOn({resp}) =>
         LET payload == IF resp.t = "json" /\ resp.body.t = "obj"
                          THEN Some(resp.body) ELSE None
             previous == IF togglePoll.last # None /\ The(togglePoll.last).t = "obj"
                           THEN togglePoll.last ELSE None
         IN IF payload # None /\ previous # None /\ payload # previous
              THEN reloadScheduled'
              ELSE reloads' = reloads]_vars


\* C28: while the page is hidden a poller keeps requesting the endpoint, at
\* its lengthened interval: a timer tick with no request outstanding sends
\* one, and a request that settles while hidden arms the lengthened
\* interval; the page becoming visible sends a request at once.
HiddenPollsAtLongInterval ==
  [][/\ (TogglePollTimer /\ hidden /\ ~togglePoll.inFlight)
          => togglePoll'.requests = togglePoll.requests + 1
     /\ (AuthPollTimer /\ hidden /\ ~authPoll.inFlight)
          => authPoll'.requests = authPoll.requests + 1
     /\ (TogglePollResponseOn(PollInputs) /\ hidden)
          => togglePoll'.timer = hiddenIntervalMs
     /\ (AuthPollResponse /\ hidden)
          => authPoll'.timer = authHiddenIntervalMs
     /\ (VisibilityChange /\ hidden /\ togglePoll.started /\ ~togglePoll.inFlight)
          => togglePoll'.requests = 1
     /\ (VisibilityChange /\ hidden /\ authPoll.started /\ ~authPoll.inFlight)
          => authPoll'.requests = 1]_vars


\* C29: applications are registered in one step; in development mode the
\* registered ones are exactly the applications that are always-on or in the
\* available set (of the fresh cache entry, else of the probe), in
\* production all applications are registered.
RegisteredAvailableOrAlwaysOn ==
  [][IF starts' # starts
       THEN /\ registered = {}
            /\ registered' =
                 IF ~isLocalhost THEN allApplications
                 ELSE LET available == IF snapshot' # None THEN The(snapshot').available
                                       ELSE The(availabilityEvent')
                      IN {app \in allApplications :
                            app \in ALWAYS_ON_APPS \/ app \in available}
       ELSE registered' = registered]_vars

\* development page started from a fresh cache entry that lacks the
\* always-on application
RegisteredFromCache ==
  /\ isLocalhost /\ starts = 1
  /\ snapshot # None
  /\ ALWAYS_ON_APPS = {Catalog}
  /\ Catalog \notin The(snapshot).available
  /\ registered = {Catalog, ProfileVue}


\* C30: a page hydrated from a cache entry that differs from what the probe
\* and the toggle service yield is eventually reloaded, when every endpoint
\* answers, whatever the visibility of the tab when the re-probe timer fires.
StaleStateCorrected ==
  (phase = "hydrated" /\ silent = {}
     /\ \A resp \in LiveResponses :
          The(snapshot).disabled # getServerToggleState(resp).disabled)
    ~> reloadScheduled


\* the detected format of a format-adaptive call, once detection has settled
formatOf(call) ==
  IF call.d = 0 \/ dtasks[call.d].pc # "done" THEN None
  ELSE LET o == The(dtasks[call.d].outcome)
       IN IF o.st = "resolved" THEN Some(o.v) ELSE None

Has(seq, x) == \E i \in DOMAIN seq : seq[i] = x

\* C31 as stated: in development mode the import of a format-adaptive
\* application follows the detected format, and a native module, like an
\* unknown one, is imported through the legacy module system when its native
\* import has failed.
NativeFallsBackToSystem ==
  \A c \in DOMAIN calls :
    LET call == calls[c]
    IN (formatOf(call) \in {Some("esm"), Some("unknown")} /\ Has(call.failed, "native-import"))
         => Has(call.tried, "system-import")

\* C31, amended: the import follows the detected format: legacy-registration
\* imports through the legacy module system, global-script loads through the
\* script loader and reads the configured global (else the application
\* name), native and unknown attempt a native import first; only an unknown
\* module whose native import failed goes on to the legacy module system, a
\* native module is never imported through it.
ImportFollowsFormat ==
  \A c \in DOMAIN calls :
    LET call == calls[c]
        f == formatOf(call)
    IN (f # None /\ Len(call.tried) >= 2) =>
         /\ f = Some("system") => call.tried[2] = "system-import"
         /\ f = Some("umd") => (call.tried[2] = "script"
                                /\ call.global = Some(globalNameOf(call.name)))
         /\ f = Some("esm") => (call.tried[2] = "native-import"
                                /\ ~Has(call.tried, "system-import"))
         /\ f = Some("unknown") =>
              /\ call.tried[2] = "native-import"
              /\ Has(call.failed, "native-import") <=> Has(call.tried, "system-import")
              /\ Has(call.tried, "system-import") => call.tried[3] = "system-import"

\* a native module whose native import failed ended on the second native
\* import, and an unknown one went through the legacy module system
NativeAndUnknownFellBack ==
  \E c, d \in DOMAIN calls :
    /\ formatOf(calls[c]) = Some("esm")
    /\ calls[c].tried = <<"detect", "native-import", "fallback-import">>
    /\ formatOf(calls[d]) = Some("unknown")
    /\ calls[d].tried = <<"detect", "native-import", "system-import", "fallback-import">>


\* the first step a load started
firstStep(call) == IF call.tried = <<>> THEN "none" ELSE call.tried[1]

\* C32: the branch of a load is fixed by the disabled state at the call and
\* by registry membership, tested in the order disabled, global-script,
\* format-adaptive, native: a name in both registries is loaded as a global
\* script, and two loads of one name under the same disabled state take the
\* same branch.
OneStrategyPerName ==
  \A c \in DOMAIN calls :
    LET call == calls[c]
    IN /\ call.strategy =
            (IF call.disabledAtCall THEN "disabled"
             ELSE IF call.name \in umdApps THEN "umd"
             ELSE IF call.name \in systemFirstApps THEN "systemFirst"
             ELSE "native")
       /\ call.strategy = "disabled" => firstStep(call) = "none"
       /\ call.strategy = "umd" => firstStep(call) = "script"
       /\ call.strategy = "systemFirst" => firstStep(call) \in {"detect", "import-name"}
       /\ call.strategy = "native" => call.tried = <<"import-name">>
       /\ \A d \in DOMAIN calls :
            (calls[d].name = call.name /\ calls[d].disabledAtCall = call.disabledAtCall)
              => (calls[d].strategy = call.strategy /\ firstStep(calls[d]) = firstStep(call))

\* the name of both registries was loaded twice as a global script
BothRegistriesLoadedAsScript ==
  /\ SimpleVanilla \in umdApps \cap systemFirstApps
  /\ Len(calls) = 2
  /\ \A c \in DOMAIN calls :
       /\ calls[c].name = SimpleVanilla
       /\ calls[c].strategy = "umd"
       /\ calls[c].pc = "done"


\* C33: every load records its start mark and then its end mark, and every
\* lifecycle invoked on the handle a load returned, the loaded module or the
\* no-op handle, records its own start mark and, once it has settled,
\* fulfilled or rejected, its own end mark.
MarksAlwaysPaired ==
  \A c \in DOMAIN calls :
    LET call == calls[c]
    IN /\ call.marks # <<>> /\ call.marks[1] = Mark("load", "start")
       /\ call.pc = "done" => (Len(call.marks) >= 2 /\ call.marks[2] = Mark("load", "end"))
       /\ call.phase # None =>
            (Len(call.marks) >= 3 /\ call.marks[3] = Mark(The(call.phase), "start"))
       /\ (call.phase # None /\ ~call.running) =>
            (Len(call.marks) = 4 /\ call.marks[4] = Mark(The(call.phase), "end"))


\* C34: handling a channel message is idempotent and delta-free: hearing the
\* same message again changes neither the stored disabled-mode configuration
\* nor the rendered state, and once a later message has been heard the
\* rendered state is the one reached had an earlier message been lost.
MessagesIdempotentAndDeltaFree ==
  [][\A data \in ChannelMessages :
       BroadcastPayload(data) =>
         /\ onBroadcast(data, lsDisabledMode', mfeDisabledMode') = lsDisabledMode'
         /\ lost'.n = 2 =>
              renderedModes(lsDisabledMode', mfeDisabledMode')
                = renderedModes(lost'.stored, mfeDisabledMode')]_vars


\* how far bootstrap() has come
phaseRank ==
  [p \in {"start", "aborted", "prodFetch", "hydrated", "probing", "settled"} |->
     CASE p = "start" -> 0
       [] p \in {"prodFetch", "hydrated"} -> 1
       [] p = "probing" -> 2
       [] OTHER -> 3]

\* C35 as stated: in every startup path the remote-toggle poller is started
\* only after a reconciliation pass (the toggle fetch, with the probe in
\* development) has completed.
PollerAfterReconciliation ==
  togglePoll.started
    => (lastPass # None /\ The(lastPass).path \in {"production", "probe"})

\* C35, amended: bootstrap only moves forward, and the poller is started in
\* the step that registers and starts the applications, after a state has
\* been published: the state of a completed pass in production and without
\* a fresh cache entry, the cached state on the cache-hydrated path, where
\* no pass has completed yet.
PollerStartsWithRegistration ==
  [][/\ phaseRank[phase'] >= phaseRank[phase]
     /\ (togglePoll'.started /\ ~togglePoll.started) =>
          /\ starts' = starts + 1
          /\ toggleEvent' # None
          /\ lastPass' # None
          /\ The(lastPass').path = (IF ~isLocalhost THEN "production"
                                    ELSE IF snapshot' # None THEN "cache" ELSE "probe")
     /\ togglePoll.started => togglePoll'.started]_vars

\* the poller runs on a hydrated page whose first pass has not completed
WatchingBeforeReconciled ==
  /\ phase = "hydrated"
  /\ togglePoll.started
  /\ The(lastPass).path = "cache"
  /\ ~cacheWritten

\* the stretches of the text that the analysis of a settled detection read
examined(task) ==
  LET text == sources[task.url]
  IN IF task.range = "206" /\ task.full = "none"
       THEN [head |-> rangePrefix(text), tail |-> <<>>, all |-> rangePrefix(text)]
       ELSE [head |-> sliceHead(text), tail |-> sliceTail(text), all |-> text]

\* the detection ended with an analysis of the text it fetched
analysed(task) ==
  /\ task.pc = "done"
  /\ \/ task.range = "200"
     \/ task.range = "206" /\ task.full \in {"none", "ok"}

\* C36: the classification follows a fixed priority over the markers found
\* in the text read: the legacy-registration preamble gives
\* legacy-registration even when the wrapper tokens or module syntax are
\* there too; otherwise the three wrapper tokens give global-script;
\* otherwise module syntax in head, tail or full text gives native;
\* otherwise the result is unknown.
ClassifiedByPriority ==
  \A i \in DOMAIN dtasks :
    analysed(dtasks[i]) =>
      LET e == examined(dtasks[i])
          format == The(dtasks[i].outcome).v
          preamble == hasSystemRegister(e.head)
          wrapper == hasUmdWrapper(e.head)
          syntax == hasEsmSyntax(e.all, e.tail)
      IN /\ dtasks[i].outcome # None
         /\ The(dtasks[i].outcome).st = "resolved"
         /\ preamble => format = "system"
         /\ (~preamble /\ wrapper) => format = "umd"
         /\ (~preamble /\ ~wrapper /\ syntax) => format = "esm"
         /\ (~preamble /\ ~wrapper /\ ~syntax) => format = "unknown"

\* a text with the preamble, the wrapper tokens and module syntax in its
\* head was classified legacy-registration
PreambleWonOverWrapperAndSyntax ==
  \E i \in DOMAIN dtasks :
    /\ analysed(dtasks[i])
    /\ hasSystemRegister(examined(dtasks[i]).head)
    /\ hasUmdWrapper(examined(dtasks[i]).head)
    /\ hasEsmSyntax(examined(dtasks[i]).all, examined(dtasks[i]).tail)
    /\ dtasks[i].outcome = Some(Resolved("system"))

\* C37: in every execution of a page, whichever startup path is taken and
\* whatever re-probes, polls and messages follow, the application set is
\* registered with the layout engine and started at most once, and the
\* remote-toggle poller is started at most once.
StartedAtMostOnce ==
  /\ starts <= 1
  /\ togglePoll.launches <= 1

\* a page that started from the cache has finished its re-probe, and the
\* poller it launched at startup has had an answer
ReprobedAfterStart ==
  /\ cached # None
  /\ lastPass # None
  /\ The(lastPass).path = "probe"
  /\ starts = 1
  /\ togglePoll.launches = 1
  /\ togglePoll.last # None

\* C38: after the shell UI has handled a channel message
\* {type: "mfe-disabled-mode", app, mode} with a valid mode, the mode
\* resolved for that application on a card without a data-disabled-mode
\* attribute is mode, whatever the remote disabledMode and the stored
\* device-local override were before the message.
ModeMessageSetsResolvedMode ==
  [][\A app \in allApplications, mode \in DisabledModes :
       BroadcastPayload(ModeMessage(app, mode)) =>
         renderedModes(lsDisabledMode', mfeDisabledMode')[app] = mode]_vars

\* C39: when the remote toggle payload has changed after the page's startup
\* fetch of the toggle state, and the page stays visible and its polls keep
\* succeeding, the page eventually reloads; this includes a change between
\* the startup fetch and the poller's first successful poll.
RemoteChangeEventuallyReloads ==
  (lastPass # None /\ apiServer.disabled # The(lastPass).remote) ~> reloadScheduled

\* the loads of a document that fit into the life of a cache entry
LoadsPerEntry == (AVAILABILITY_CACHE_TTL \div LoadMs) + 1

\* C40: with two tabs open on the origin and the remote toggle state and the
\* device-local lists no longer changing, reloads stop in every tab: the
\* write to "mfe-disabled-mode" that a tab makes during its own
\* reconciliation does not set off an unbounded chain of storage-event
\* reloads between the tabs; no tab is reloaded more often than documents
\* can be loaded while a cache entry lives.
ReloadChainStops ==
  \A i \in DOMAIN tabs : tabs[i].reloads <= LoadsPerEntry

\* each tab has been reloaded by a write of the other, and both are at rest
BothTabsReloadedAndAtRest ==
  /\ DOMAIN tabs = TabIds
  /\ \A i \in TabIds :
       /\ tabs[i].reloads > 0
       /\ tabs[i].pc = "settled"
       /\ ~tabs[i].event


====
